---- MODULE Spec2Model ----
(***************************************************************************)
(* Verification model of the developer-journal repository:                 *)
(*   - the HTTP journal server (mcp-server/http-server.js and its          *)
(*     standalone variant), its create-entry handler and its GET routes;   *)
(*   - mergeSummaryUpdates (Entry 0 merge);                                *)
(*   - the Linear cache sync (web/lib/linear/sync.ts);                     *)
(*   - the portfolio-projects routes;                                      *)
(*   - withErrorHandler and the typed errors;                              *)
(*   - the zod schemas and the web API routes validated with them;         *)
(*   - the Atropos normalisation migration;                                *)
(*   - normalizeReport's handling of ANTHROPIC_API_KEY.                    *)
(* Text values are strings; values the code parses or prefix-matches       *)
(* (query numbers, commit hashes) are sequences of one-character strings.  *)
(***************************************************************************)
EXTENDS Integers, Sequences, FiniteSets, TLC

VARIABLES
  journal_entries,    \* table journal_entries: rows in rowid order
  project_summaries,  \* table project_summaries: rows ordered by repository
  entry_attachments,  \* table entry_attachments: rows in rowid order
  reqs,               \* create-entry requests in flight, per connection
  resp,               \* what the last handler step of the HTTP server did
  entry0,             \* one Entry 0 update: existing summary, update, merge result
  linear_projects,    \* table linear_projects, by id
  linear_issues,      \* table linear_issues, by id
  syncs,              \* the sync runs in progress
  portfolio_projects, \* table portfolio_projects, by id
  portfolioResp,      \* the last response of the portfolio-projects routes
  nodeEnv,            \* process.env.NODE_ENV
  wrapped,            \* the last call of a handler wrapped by withErrorHandler
  skills,             \* table skills: rows in rowid order
  conversations,      \* table conversations: rows in rowid order
  atropos_corrections,\* table atropos_corrections: rows in rowid order
  webResp,            \* the last request of the web API routes and its answer
  atropos,            \* the Atropos tables, the clock and the migration runs
  apiKey,             \* process.env.ANTHROPIC_API_KEY
  keyBefore,          \* its value when the first call in flight started
  normalizing,        \* the calls of normalizeReport, by caller
  drizzle             \* module state of web/lib/db/drizzle.ts and its environment

journalVars == <<journal_entries, project_summaries, entry_attachments, reqs, resp>>
mergeVars == <<entry0>>
linearVars == <<linear_projects, linear_issues, syncs>>
portfolioVars == <<portfolio_projects, portfolioResp>>
errVars == <<nodeEnv, wrapped>>
webVars == <<skills, conversations, atropos_corrections, webResp>>

migrationVars == <<atropos>>
keyVars == <<apiKey, keyBefore, normalizing>>

\* the web routes, the migration and normalizeReport's API key
drizzleVars == <<drizzle>>
laterVars == <<webVars, migrationVars, keyVars, drizzleVars>>

vars == <<journalVars, mergeVars, linearVars, portfolioVars, errVars, laterVars>>

notJournalVars == <<mergeVars, linearVars, portfolioVars, errVars, laterVars>>
notMergeVars == <<journalVars, linearVars, portfolioVars, errVars, laterVars>>
notLinearVars == <<journalVars, mergeVars, portfolioVars, errVars, laterVars>>
notPortfolioVars == <<journalVars, mergeVars, linearVars, errVars, laterVars>>
notErrVars == <<journalVars, mergeVars, linearVars, portfolioVars, laterVars>>
notWebVars ==
  <<journalVars, mergeVars, linearVars, portfolioVars, migrationVars, keyVars, drizzleVars>>
notMigrationVars ==
  <<journalVars, mergeVars, linearVars, portfolioVars, errVars, webVars, keyVars,
    drizzleVars>>
notKeyVars ==
  <<journalVars, mergeVars, linearVars, portfolioVars, errVars, webVars, migrationVars,
    drizzleVars>>
notDrizzleVars ==
  <<journalVars, mergeVars, linearVars, portfolioVars, errVars, webVars, migrationVars,
    keyVars>>

-----------------------------------------------------------------------------
(* Bounds *)

MaxReq == 2        \* concurrent create-entry requests
MaxEntries == 2    \* rows of journal_entries in the create-entry model
MaxRows == 2       \* rows of journal_entries in the read model

-----------------------------------------------------------------------------
(* Generic helpers *)

Min(a, b) == IF a < b THEN a ELSE b

Range(s) == {s[i] : i \in 1..Len(s)}

\* s is a prefix of t (SQL: t LIKE 's%')
IsPrefix(s, t) == Len(s) <= Len(t) /\ SubSeq(t, 1, Len(s)) = s

\* the record r without field f (JS: delete r.f)
DeleteField(r, f) == [k \in (DOMAIN r) \ {f} |-> r[k]]

-----------------------------------------------------------------------------
(* Input domains of the HTTP journal server *)

HashA == <<"a">>
HashAB == <<"a", "b">>
HashB == <<"b">>
NoHash == <<>>

Repos == {"r1", "r2"}
Branches == {"main", "dev"}

Null == "NULL"      \* JS null / undefined of a text value
NoRow == [id |-> 0] \* a query that found no row

\* outputs of the AI generation (kronus_wisdom is optional)
AiOutputs ==
  { [why |-> "w", what_changed |-> "c", decisions |-> "d",
     technologies |-> "t", kronus_wisdom |-> k] : k \in {"k", Null} }

-----------------------------------------------------------------------------
(* SQLite semantics used by the queries *)

\* the table without its UNIQUE constraint
CommitHashUnique_dropped(rows, hash) == TRUE

\* UNIQUE constraint on journal_entries.commit_hash: may hash be inserted?
CommitHashUnique(rows, hash) ==
  \A i \in 1..Len(rows) : rows[i].commit_hash # hash

RECURSIVE InsertByDateDesc(_, _)
InsertByDateDesc(sorted, row) ==
  IF sorted = <<>> THEN <<row>>
  ELSE IF Head(sorted).date >= row.date
       THEN <<Head(sorted)>> \o InsertByDateDesc(Tail(sorted), row)
       ELSE <<row>> \o sorted

\* ORDER BY date DESC (rows of equal date stay in rowid order)
RECURSIVE OrderByDateDesc(_)
OrderByDateDesc(rows) ==
  IF rows = <<>> THEN <<>>
  ELSE InsertByDateDesc(OrderByDateDesc(SubSeq(rows, 1, Len(rows) - 1)),
                        rows[Len(rows)])

\* LIMIT ? OFFSET ?: a negative LIMIT is no limit, a negative OFFSET is 0
SqlLimitOffset(rows, limit, offset) ==
  LET off == IF offset < 0 THEN 0 ELSE offset
      last == IF limit < 0 THEN Len(rows) ELSE Min(Len(rows), off + limit)
  IN IF off + 1 > last THEN <<>> ELSE SubSeq(rows, off + 1, last)

-----------------------------------------------------------------------------
(* Database query functions *)

commitHasEntry(hash) ==
  \E i \in 1..Len(journal_entries) : journal_entries[i].commit_hash = hash

insertJournalEntry(row) ==
  IF CommitHashUnique(journal_entries, row.commit_hash)
  THEN [ok |-> TRUE, id |-> Len(journal_entries) + 1,
        rows |-> Append(journal_entries,
                        [row EXCEPT !.id = Len(journal_entries) + 1])]
  ELSE [ok |-> FALSE, id |-> 0, rows |-> journal_entries]

getEntryByCommit(commitHash) ==
  LET exact == SelectSeq(journal_entries, LAMBDA e : e.commit_hash = commitHash)
      like == SelectSeq(journal_entries, LAMBDA e : IsPrefix(commitHash, e.commit_hash))
  IN IF exact # <<>> THEN Head(exact)
     ELSE IF like # <<>> THEN Head(like)
     ELSE NoRow

getEntriesByRepositoryPaginated(repository, limit, offset) ==
  LET matching == SelectSeq(journal_entries, LAMBDA e : e.repository = repository)
  IN [entries |-> SqlLimitOffset(OrderByDateDesc(matching), limit, offset),
      total |-> Len(matching)]

getEntriesByBranchPaginated(repository, branch, limit, offset) ==
  LET matching == SelectSeq(journal_entries,
                    LAMBDA e : e.repository = repository /\ e.branch = branch)
  IN [entries |-> SqlLimitOffset(OrderByDateDesc(matching), limit, offset),
      total |-> Len(matching)]

listRepositories == {journal_entries[i].repository : i \in 1..Len(journal_entries)}

listBranches(repository) ==
  {journal_entries[i].branch :
     i \in {j \in 1..Len(journal_entries) : journal_entries[j].repository = repository}}

getProjectSummary(repository) ==
  LET found == SelectSeq(project_summaries, LAMBDA s : s.repository = repository)
  IN IF found # <<>> THEN Head(found) ELSE NoRow

listAllProjectSummariesPaginated(limit, offset) ==
  [summaries |-> SqlLimitOffset(project_summaries, limit, offset),
   total |-> Len(project_summaries)]

getAttachmentMetadataByCommit(commitHash) ==
  LET found == SelectSeq(entry_attachments, LAMBDA a : a.commit_hash = commitHash)
  IN [i \in 1..Len(found) |-> DeleteField(found[i], "data")]

getAttachmentById(id) ==
  LET found == SelectSeq(entry_attachments, LAMBDA a : a.id = id)
  IN IF found # <<>> THEN Head(found) ELSE NoRow
-----------------------------------------------------------------------------
(* Query-string parsing of the HTTP journal server *)

DefaultLimit == 20
MaxPageSize == 50

DigitVal(c) ==
  CASE c = "0" -> 0 [] c = "1" -> 1 [] c = "2" -> 2 [] c = "3" -> 3
    [] c = "4" -> 4 [] c = "5" -> 5 [] c = "6" -> 6 [] c = "7" -> 7
    [] c = "8" -> 8 [] c = "9" -> 9 [] OTHER -> -1

\* the leading decimal digits of s; nan when there is none
RECURSIVE ParseDigits(_, _, _)
ParseDigits(s, acc, seen) ==
  IF s = <<>> \/ DigitVal(Head(s)) < 0
  THEN [nan |-> ~seen, n |-> acc]
  ELSE ParseDigits(Tail(s), acc * 10 + DigitVal(Head(s)), TRUE)

\* JS parseInt of a query value (<<>> is an absent or empty parameter)
parseInt(s) ==
  IF s # <<>> /\ Head(s) = "-"
  THEN LET r == ParseDigits(Tail(s), 0, FALSE) IN [nan |-> r.nan, n |-> 0 - r.n]
  ELSE IF s # <<>> /\ Head(s) = "+"
  THEN ParseDigits(Tail(s), 0, FALSE)
  ELSE ParseDigits(s, 0, FALSE)

\* JS: parseInt(x) || d  (NaN and 0 are falsy)
OrDefault(p, d) == IF p.nan \/ p.n = 0 THEN d ELSE p.n

\* a parser that takes every value but 'false' as true
parseQuery_lenient(query) ==
  [limit |-> OrDefault(parseInt(query.limit), DefaultLimit),
   offset |-> OrDefault(parseInt(query.offset), 0),
   include_raw_report |-> query.include_raw_report # "false"]

parseQuery(query) ==
  [limit |-> OrDefault(parseInt(query.limit), DefaultLimit),
   offset |-> OrDefault(parseInt(query.offset), 0),
   include_raw_report |-> query.include_raw_report = "true"]

\* a query string: absent parameters are <<>> (numbers) or Null (flags)
Query(limit, offset, include_raw_report, include_data) ==
  [limit |-> limit, offset |-> offset,
   include_raw_report |-> include_raw_report, include_data |-> include_data]

NoQuery == Query(<<>>, <<>>, Null, Null)

-----------------------------------------------------------------------------
(* Responses: the last handler step; status 0 is a step that has not yet
   answered (the handler is suspended at an await) *)

Response(method, route, status, params, query, body) ==
  [method |-> method, route |-> route, status |-> status,
   params |-> params, query |-> query, body |-> body]

NoParams == [none |-> TRUE]
NoBody == [none |-> TRUE]

sendError(method, route, status, params, query, message) ==
  Response(method, route, status, params, query, [error |-> message])

-----------------------------------------------------------------------------
(* POST /api/journal/entries *)

ReqIds == 1..MaxReq

EmptyBody ==
  [json_ok |-> TRUE, commit_hash |-> NoHash, repository |-> "", branch |-> "",
   author |-> "", date |-> 0, raw_agent_report |-> <<>>]

IdleReq == [pc |-> "idle", body |-> EmptyBody, had_entry |-> FALSE, ai_invoked |-> FALSE]

InFlight == {r \in ReqIds : reqs[r].pc # "idle"}

MissingRequired(body) ==
  \/ body.commit_hash = NoHash
  \/ body.repository = ""
  \/ body.branch = ""
  \/ body.author = ""
  \/ body.date = 0
  \/ body.raw_agent_report = <<>>

\* the handler without its commitHasEntry check
CreateEntryPrecheck_unchecked(body) ==
  IF MissingRequired(body) THEN 400 ELSE 0

\* the checks before AI generation: 400, 409 or 0 (go on)
CreateEntryPrecheck(body) ==
  IF MissingRequired(body) THEN 400
  ELSE IF commitHasEntry(body.commit_hash) THEN 409
  ELSE 0

\* the request arrives; the handler awaits parseBody
PostReceive(r, body) ==
  /\ reqs[r].pc = "idle"
  /\ \/ Len(journal_entries) + Cardinality(InFlight) < MaxEntries
     \/ ~body.json_ok
     \/ CreateEntryPrecheck(body) # 0
  /\ reqs' = [reqs EXCEPT ![r] =
                [pc |-> "parsing", body |-> body,
                 had_entry |-> body.json_ok /\ commitHasEntry(body.commit_hash),
                 ai_invoked |-> FALSE]]
  /\ resp' = Response("POST", "create", 0, NoParams, NoQuery, NoBody)
  /\ UNCHANGED <<journal_entries, project_summaries, entry_attachments, notJournalVars>>

\* parseBody settles; validation, duplicate check, start of AI generation
PostValidate(r) ==
  /\ reqs[r].pc = "parsing"
  /\ LET body == reqs[r].body
         pre == CreateEntryPrecheck(body)
         req == reqs[r]
     IN IF ~body.json_ok
        THEN /\ resp' = sendError("POST", "create", 500, req, NoQuery, "Invalid JSON")
             /\ reqs' = [reqs EXCEPT ![r] = IdleReq]
        ELSE IF pre = 400
        THEN /\ resp' = sendError("POST", "create", 400, req, NoQuery, "Missing required fields")
             /\ reqs' = [reqs EXCEPT ![r] = IdleReq]
        ELSE IF pre = 409
        THEN /\ resp' = Response("POST", "create", 409, req, NoQuery,
                                 [success |-> FALSE, error |-> "Entry already exists"])
             /\ reqs' = [reqs EXCEPT ![r] = IdleReq]
        ELSE /\ resp' = Response("POST", "create", 0, NoParams, NoQuery, NoBody)
             /\ reqs' = [reqs EXCEPT ![r] = [req EXCEPT !.pc = "generating", !.ai_invoked = TRUE]]
  /\ UNCHANGED <<journal_entries, project_summaries, entry_attachments, notJournalVars>>

\* generateJournalEntry resolves; insert and answer
PostGenerated(r, aiOutput) ==
  /\ reqs[r].pc = "generating"
  /\ LET body == reqs[r].body
         ins == insertJournalEntry(
                  [id |-> 0, commit_hash |-> body.commit_hash,
                   repository |-> body.repository, branch |-> body.branch,
                   author |-> body.author, date |-> body.date,
                   why |-> aiOutput.why, what_changed |-> aiOutput.what_changed,
                   decisions |-> aiOutput.decisions,
                   technologies |-> aiOutput.technologies,
                   kronus_wisdom |-> aiOutput.kronus_wisdom,
                   raw_agent_report |-> body.raw_agent_report])
     IN IF ins.ok
        THEN /\ journal_entries' = ins.rows
             /\ resp' = Response("POST", "create", 201, reqs[r], NoQuery,
                          [success |-> TRUE, entry_id |-> ins.id,
                           commit_hash |-> body.commit_hash,
                           repository |-> body.repository, branch |-> body.branch,
                           why |-> aiOutput.why, what_changed |-> aiOutput.what_changed,
                           decisions |-> aiOutput.decisions,
                           technologies |-> aiOutput.technologies,
                           kronus_wisdom |-> aiOutput.kronus_wisdom])
        ELSE /\ journal_entries' = journal_entries
             /\ resp' = sendError("POST", "create", 500, reqs[r], NoQuery,
                                  "UNIQUE constraint failed")
  /\ reqs' = [reqs EXCEPT ![r] = IdleReq]
  /\ UNCHANGED <<project_summaries, entry_attachments, notJournalVars>>

\* generateJournalEntry rejects
PostGenerateFailed(r) ==
  /\ reqs[r].pc = "generating"
  /\ resp' = sendError("POST", "create", 500, reqs[r], NoQuery, "AI generation failed")
  /\ reqs' = [reqs EXCEPT ![r] = IdleReq]
  /\ UNCHANGED <<journal_entries, project_summaries, entry_attachments, notJournalVars>>
-----------------------------------------------------------------------------
(* GET routes of the HTTP journal server *)

tablesUnchanged ==
  UNCHANGED <<journal_entries, project_summaries, entry_attachments, reqs, notJournalVars>>

\* entries.forEach(e => delete e.raw_agent_report)
StripRawReport(entries) ==
  [i \in 1..Len(entries) |-> DeleteField(entries[i], "raw_agent_report")]

\* base64 text of a BLOB: 4 characters for every 3 bytes, padded
Base64(data) == [base64_of |-> data.blob, chars |-> 4 * ((data.bytes + 2) \div 3)]

GetHealth ==
  /\ resp' = Response("GET", "health", 200, NoParams, NoQuery, [status |-> "healthy"])
  /\ tablesUnchanged

Options ==
  /\ resp' = Response("OPTIONS", "any", 204, NoParams, NoQuery, NoBody)
  /\ tablesUnchanged

NotFoundRoute(method) ==
  /\ resp' = sendError(method, "unknown", 404, NoParams, NoQuery, "Not found")
  /\ tablesUnchanged

\* a handler that writes the stripped row back to the table
GetEntry_writeback(commitHash, query) ==
  LET entry == getEntryByCommit(commitHash)
  IN /\ entry # NoRow
     /\ resp' = Response("GET", "entry", 200, [commit_hash |-> commitHash], query,
                         DeleteField(entry, "raw_agent_report"))
     /\ journal_entries' = [journal_entries EXCEPT ![entry.id].raw_agent_report = ""]
     /\ UNCHANGED <<project_summaries, entry_attachments, reqs, notJournalVars>>

GetEntry(commitHash, query) ==
  LET include_raw_report == parseQuery(query).include_raw_report
      entry == getEntryByCommit(commitHash)
      params == [commit_hash |-> commitHash]
  IN /\ resp' = IF entry = NoRow
                THEN sendError("GET", "entry", 404, params, query, "No entry found")
                ELSE Response("GET", "entry", 200, params, query,
                       IF ~include_raw_report
                       THEN DeleteField(entry, "raw_agent_report")
                       ELSE entry)
     /\ tablesUnchanged

ListRepositories ==
  /\ resp' = Response("GET", "repositories", 200, NoParams, NoQuery,
               [repositories |-> listRepositories,
                count |-> Cardinality(listRepositories)])
  /\ tablesUnchanged

\* has_more: offset + entries.length < total
HasMore(offset, returned, total) == offset + returned < total

ListRepoEntries(repository, query) ==
  LET q == parseQuery(query)
      r == getEntriesByRepositoryPaginated(repository, Min(q.limit, MaxPageSize), q.offset)
      entries == IF ~q.include_raw_report THEN StripRawReport(r.entries) ELSE r.entries
  IN /\ resp' = Response("GET", "repo_entries", 200, [repository |-> repository], query,
                  [repository |-> repository, entries |-> entries, total |-> r.total,
                   limit |-> q.limit, offset |-> q.offset,
                   has_more |-> HasMore(q.offset, Len(entries), r.total)])
     /\ tablesUnchanged

ListBranches(repository) ==
  /\ resp' = Response("GET", "branches", 200, [repository |-> repository], NoQuery,
               [repository |-> repository, branches |-> listBranches(repository),
                count |-> Cardinality(listBranches(repository))])
  /\ tablesUnchanged

ListBranchEntries(repository, branch, query) ==
  LET q == parseQuery(query)
      r == getEntriesByBranchPaginated(repository, branch, Min(q.limit, MaxPageSize), q.offset)
      entries == IF ~q.include_raw_report THEN StripRawReport(r.entries) ELSE r.entries
  IN /\ resp' = Response("GET", "branch_entries", 200,
                  [repository |-> repository, branch |-> branch], query,
                  [repository |-> repository, branch |-> branch,
                   entries |-> entries, total |-> r.total,
                   limit |-> q.limit, offset |-> q.offset,
                   has_more |-> HasMore(q.offset, Len(entries), r.total)])
     /\ tablesUnchanged

GetSummary(repository) ==
  LET summary == getProjectSummary(repository)
      params == [repository |-> repository]
  IN /\ resp' = IF summary = NoRow
                THEN sendError("GET", "summary", 404, params, NoQuery, "No summary found")
                ELSE Response("GET", "summary", 200, params, NoQuery, summary)
     /\ tablesUnchanged

ListSummaries(query) ==
  LET q == parseQuery(query)
      r == listAllProjectSummariesPaginated(Min(q.limit, MaxPageSize), q.offset)
  IN /\ resp' = Response("GET", "summaries", 200, NoParams, query,
                  [summaries |-> r.summaries, total |-> r.total,
                   limit |-> q.limit, offset |-> q.offset,
                   has_more |-> HasMore(q.offset, Len(r.summaries), r.total)])
     /\ tablesUnchanged

ListAttachments(commitHash) ==
  LET attachments == getAttachmentMetadataByCommit(commitHash)
  IN /\ resp' = Response("GET", "attachments", 200, [commit_hash |-> commitHash], NoQuery,
                  [commit_hash |-> commitHash, attachments |-> attachments,
                   count |-> Len(attachments)])
     /\ tablesUnchanged

GetAttachment(id, query) ==
  LET includeData == query.include_data = "true"
      attachment == getAttachmentById(id)
      params == [id |-> id]
      response == DeleteField(attachment, "data")
  IN /\ resp' = IF attachment = NoRow
                THEN sendError("GET", "attachment", 404, params, query, "No attachment found")
                ELSE Response("GET", "attachment", 200, params, query,
                       IF includeData
                       THEN response @@ [data_base64 |-> Base64(attachment.data)]
                       ELSE response)
     /\ tablesUnchanged
-----------------------------------------------------------------------------
(* Initial contents of the journal database *)

Row(id, hash, repository, branch, date) ==
  [id |-> id, commit_hash |-> hash, repository |-> repository, branch |-> branch,
   author |-> "alice", date |-> date,
   why |-> "w", what_changed |-> "c", decisions |-> "d", technologies |-> "t",
   kronus_wisdom |-> Null,
   raw_agent_report |-> <<"raw", hash>>]

\* the commit hash of the i-th seeded row
SeedHash(i) == IF i = 1 THEN HashAB ELSE IF i = 2 THEN HashB ELSE [k \in 1..i |-> "c"]

SeedShapes ==
  { <<"r1", "main", 1>>, <<"r1", "dev", 2>>, <<"r2", "main", 2>> }

\* tables of exactly n rows, ids 1..n, distinct commit hashes
RECURSIVE SeedTables(_)
SeedTables(n) ==
  IF n = 0 THEN { <<>> }
  ELSE { Append(t, Row(n, SeedHash(n), s[1], s[2], s[3])) :
           t \in SeedTables(n - 1), s \in SeedShapes }

SeedTablesUpTo(n) == UNION { SeedTables(k) : k \in 0..n }

Summary(repository) ==
  [repository |-> repository, git_url |-> Null, summary |-> "s", purpose |-> "p",
   architecture |-> "a", key_decisions |-> "kd", technologies |-> "t",
   status |-> "active"]

SeedSummaries == { <<>>, <<Summary("r1"), Summary("r2")>> }

Attachment(id, hash, mime_type, file_size) ==
  [id |-> id, commit_hash |-> hash, filename |-> "f", mime_type |-> mime_type,
   description |-> Null, file_size |-> file_size, uploaded_at |-> "t0",
   data |-> [blob |-> id, bytes |-> file_size]]

\* attachments of the first seeded entry: small and large, image and text
SeedAttachments ==
  << Attachment(1, SeedHash(1), "image/png", 2048),
     Attachment(2, SeedHash(1), "image/png", 204800),
     Attachment(3, SeedHash(1), "text/plain", 1024),
     Attachment(4, SeedHash(1), "text/plain", 204800) >>

\* the database with the given journal rows (attachments need their entry)
JournalDb(rows, summaries) ==
  /\ journal_entries = rows
  /\ project_summaries = summaries
  /\ entry_attachments = IF rows = <<>> THEN <<>> ELSE SeedAttachments
  /\ reqs = [r \in ReqIds |-> IdleReq]
  /\ resp = Response("", "", 0, NoParams, NoQuery, NoBody)

-----------------------------------------------------------------------------
(* Requests the models send *)

ValidBody(hash) ==
  [EmptyBody EXCEPT !.commit_hash = hash, !.repository = "r1", !.branch = "main",
                    !.author = "alice", !.date = 1, !.raw_agent_report = <<"raw", hash>>]

\* two complete bodies, one without repository, and one that is not JSON
CreateBodies ==
  { ValidBody(HashA), ValidBody(HashAB),
    [ValidBody(HashAB) EXCEPT !.repository = ""],
    [EmptyBody EXCEPT !.json_ok = FALSE] }

LimitParams == { <<>>, <<"1">>, <<"6", "0">>, <<"-", "1">> }
OffsetParams == { <<>>, <<"1">>, <<"-", "3">> }
FlagParams == { Null, "true", "false" }
QueryHashes == { HashA, HashAB, HashB }
AttachmentIds == 1..5

ListQueries ==
  { Query(l, o, f, Null) : l \in LimitParams, o \in OffsetParams, f \in {Null, "true"} }
BranchQueries ==
  { NoQuery, Query(<<"0">>, <<"x">>, "false", Null), Query(<<"1">>, <<"1">>, "true", Null),
    Query(<<"-", "1">>, <<"-", "3">>, Null, Null) }
FlagQueries == { Query(<<>>, <<>>, f, f) : f \in FlagParams }
FewQueries == { Query(<<"1">>, <<>>, Null, "true") }

\* the GET routes, with the queries of the repository list drawn from QL,
\* of the branch and summary lists from QB, of the single-row routes from QF
GetRoutes(QL, QB, QF) ==
  \/ GetHealth
  \/ Options
  \/ NotFoundRoute("DELETE")
  \/ ListRepositories
  \/ \E h \in QueryHashes, q \in QF : GetEntry(h, q)
  \/ \E rp \in Repos, q \in QL : ListRepoEntries(rp, q)
  \/ \E rp \in Repos : ListBranches(rp)
  \/ \E rp \in Repos, b \in Branches, q \in QB : ListBranchEntries(rp, b, q)
  \/ \E rp \in Repos : GetSummary(rp)
  \/ \E q \in QB : ListSummaries(q)
  \/ \E h \in QueryHashes : ListAttachments(h)
  \/ \E id \in AttachmentIds, q \in QF : GetAttachment(id, q)

CreateRoute ==
  \/ \E r \in ReqIds, body \in CreateBodies : PostReceive(r, body)
  \/ \E r \in ReqIds : PostValidate(r)
  \/ \E r \in ReqIds, ai \in AiOutputs : PostGenerated(r, ai)
  \/ \E r \in ReqIds : PostGenerateFailed(r)

-----------------------------------------------------------------------------
(* Claims about create-entry and read-only access *)

IsCreateResponse == resp.method = "POST" /\ resp.route = "create" /\ resp.status # 0

\* C1: after any interleaving of create-entry requests, journal_entries
\* holds at most one entry per commit_hash.
C1_OneEntryPerCommit ==
  \A i, j \in 1..Len(journal_entries) :
    i # j => journal_entries[i].commit_hash # journal_entries[j].commit_hash

\* two requests for one commit both passed the duplicate check; the second
\* insert was refused by the table
C1_Witness ==
  /\ IsCreateResponse
  /\ resp.status = 500
  /\ resp.body.error = "UNIQUE constraint failed"
  /\ commitHasEntry(resp.params.body.commit_hash)

\* C2 as stated: every create-entry request whose commit_hash already had an
\* entry is answered 409 with success=false, without AI generation.
C2_Original ==
  (IsCreateResponse /\ resp.params.had_entry)
    => /\ resp.status = 409
       /\ resp.body.success = FALSE
       /\ ~resp.params.ai_invoked

C2_Answered ==
  (IsCreateResponse /\ resp.params.had_entry /\ ~MissingRequired(resp.params.body))
    => /\ resp.status = 409
       /\ resp.body.success = FALSE
       /\ ~resp.params.ai_invoked

C2_Frame ==
  (resp'.method = "POST" /\ resp'.route = "create" /\ resp'.status = 409)
    => UNCHANGED <<journal_entries, project_summaries, entry_attachments>>

\* C2 amended: a create-entry request that carries all six required fields
\* and whose commit_hash already had an entry is answered 409 with
\* success=false, without AI generation, and the step that answers 409
\* changes no row of any table.
C2_DuplicateRejected == []C2_Answered /\ [][C2_Frame]_vars

C2_Witness ==
  /\ IsCreateResponse
  /\ resp.status = 409
  /\ resp.params.had_entry
  /\ Len(journal_entries) >= 1

\* C4: every GET request leaves journal_entries, project_summaries and
\* entry_attachments unchanged; every step that changes one of them is a
\* step of POST /api/journal/entries.
C4_ReadOnly ==
  [][ /\ resp'.method = "GET"
        => UNCHANGED <<journal_entries, project_summaries, entry_attachments>>
      /\ <<journal_entries, project_summaries, entry_attachments>>' #
           <<journal_entries, project_summaries, entry_attachments>>
        => (resp'.method = "POST" /\ resp'.route = "create" /\ resp'.status = 201)
    ]_vars

\* an entry created by a POST has been read by a GET
C4_Witness ==
  /\ resp.method = "GET"
  /\ resp.route = "entry"
  /\ resp.status = 200
  /\ resp.body.commit_hash = HashA
-----------------------------------------------------------------------------
(* Claims about the GET routes *)

LargeFileLimit == 102400   \* "Large files (>100KB)"
PreviewLimit == 10240      \* "Preview only (max 10KB)"
ImageMimeTypes == { "image/png", "image/jpeg", "image/gif" }

IsListResponse ==
  resp.status = 200 /\ resp.route \in {"repo_entries", "branch_entries", "summaries"}

\* the rows the list request's filter matches, in the order of its query
MatchingRows ==
  CASE resp.route = "repo_entries" ->
         OrderByDateDesc(SelectSeq(journal_entries,
           LAMBDA e : e.repository = resp.params.repository))
    [] resp.route = "branch_entries" ->
         OrderByDateDesc(SelectSeq(journal_entries,
           LAMBDA e : e.repository = resp.params.repository
                      /\ e.branch = resp.params.branch))
    [] resp.route = "summaries" -> project_summaries

ReturnedRows ==
  IF resp.route = "summaries" THEN resp.body.summaries ELSE resp.body.entries

RowKey(row) == IF resp.route = "summaries" THEN row.repository ELSE row.commit_hash

\* a matching row lies after the last row returned
MoreAfterLastReturned ==
  /\ ReturnedRows # <<>>
  /\ \E k \in 1..Len(MatchingRows) :
       /\ RowKey(MatchingRows[k]) = RowKey(ReturnedRows[Len(ReturnedRows)])
       /\ k < Len(MatchingRows)

\* C3: in every paginated list response, for every limit and offset the
\* endpoint accepts, total is the number of rows matching the filter and
\* has_more is true exactly when a matching row lies after the last row
\* returned.
C3_Pagination ==
  IsListResponse =>
    /\ resp.body.total = Len(MatchingRows)
    /\ resp.body.has_more <=> MoreAfterLastReturned

\* C8: retrieving an attachment by id never returns base64 data for an
\* image; for a file larger than 100KB at most a 10KB preview is returned;
\* data is returned only when include_data=true is requested.
C8_AttachmentGuard ==
  (resp.route = "attachment" /\ resp.status = 200) =>
    LET attachment == getAttachmentById(resp.params.id)
        hasData == "data_base64" \in DOMAIN resp.body
    IN /\ attachment.mime_type \in ImageMimeTypes => ~hasData
       /\ (attachment.file_size > LargeFileLimit /\ hasData)
            => resp.body.data_base64.chars <= PreviewLimit
       /\ hasData => resp.query.include_data = "true"

HasRawReport(row) == "raw_agent_report" \in DOMAIN row

RawReportAsStored(row) ==
  /\ HasRawReport(row)
  /\ row.raw_agent_report = journal_entries[row.id].raw_agent_report

\* C9: the get-entry response and every entry of the list-by-repository and
\* list-by-branch responses carry raw_agent_report exactly when the request
\* has include_raw_report=true, and then with the stored value.
C9_RawReportExcluded ==
  LET wanted == resp.query.include_raw_report = "true"
  IN /\ (resp.route = "entry" /\ resp.status = 200) =>
          IF wanted THEN RawReportAsStored(resp.body) ELSE ~HasRawReport(resp.body)
     /\ (resp.route \in {"repo_entries", "branch_entries"} /\ resp.status = 200) =>
          \A i \in 1..Len(resp.body.entries) :
            IF wanted THEN RawReportAsStored(resp.body.entries[i])
            ELSE ~HasRawReport(resp.body.entries[i])

\* a list requested without the parameter returned two rows, neither
\* carrying the report although both have one stored
C9_Witness ==
  /\ resp.route = "repo_entries"
  /\ resp.status = 200
  /\ Len(resp.body.entries) = 2
  /\ resp.query.include_raw_report = Null
  /\ \A i \in 1..2 :
       /\ ~HasRawReport(resp.body.entries[i])
       /\ journal_entries[resp.body.entries[i].id].raw_agent_report # <<>>

\* a list requested with include_raw_report=true returned the stored reports
C9_WitnessIncluded ==
  /\ resp.route = "repo_entries"
  /\ resp.status = 200
  /\ Len(resp.body.entries) = 2
  /\ resp.query.include_raw_report = "true"
  /\ RawReportAsStored(resp.body.entries[2])

-----------------------------------------------------------------------------
(* Entry 0: mergeSummaryUpdates *)

MaxNonNull == 2   \* non-null fields of a generated SummaryUpdate

SummaryFields ==
  { "summary", "purpose", "architecture", "key_decisions", "technologies", "status",
    "file_structure", "tech_stack", "frontend", "backend", "database_info",
    "services", "custom_tooling", "data_flow", "patterns", "commands",
    "extended_notes" }

\* SummaryUpdateSchema: every field a string or null
AllNullUpdate == [f \in SummaryFields |-> Null]

EmptyObject == [f \in {} |-> Null]

\* JS: m.f = v
Assign(m, f, v) == (f :> v) @@ m

\* a merge that falls back to the existing value of a null update
mergeSummaryUpdates_fallback(existing, updates) ==
  LET kept == { f \in SummaryFields :
                  \/ updates[f] # Null
                  \/ (f \in DOMAIN existing /\ existing[f] # Null) }
  IN [f \in kept |-> IF updates[f] # Null THEN updates[f] ELSE existing[f]]

\* the fields in the order the function tests them
SummaryFieldOrder ==
  << "summary", "purpose", "architecture", "key_decisions", "technologies", "status",
     "file_structure", "tech_stack", "frontend", "backend", "database_info",
     "services", "custom_tooling", "data_flow", "patterns", "commands",
     "extended_notes" >>

\* if (updates.f !== null) merged.f = updates.f, for the fields from the k-th on
RECURSIVE AssignNonNull(_, _, _)
AssignNonNull(merged, updates, k) ==
  IF k > Len(SummaryFieldOrder) THEN merged
  ELSE LET f == SummaryFieldOrder[k]
       IN IF updates[f] # Null
          THEN AssignNonNull(Assign(merged, f, updates[f]), updates, k + 1)
          ELSE AssignNonNull(merged, updates, k + 1)

mergeSummaryUpdates(existing, updates) == AssignNonNull(EmptyObject, updates, 1)

\* writing a partial record over a stored summary: the fields it has
WriteOver(stored, partial) ==
  [f \in DOMAIN stored |-> IF f \in DOMAIN partial THEN partial[f] ELSE stored[f]]

NoSummary == [none |-> TRUE]   \* existing = null
OldSummary == [f \in SummaryFields |-> "old"]
SparseSummary ==
  [f \in SummaryFields |-> IF f \in {"summary", "status", "commands"} THEN "old" ELSE Null]

ExistingSamples == { NoSummary, OldSummary, SparseSummary }

RECURSIVE UpdatesWith(_)
UpdatesWith(n) ==
  IF n = 0 THEN { AllNullUpdate }
  ELSE UpdatesWith(n - 1) \cup
       { [u EXCEPT ![f] = v] : u \in UpdatesWith(n - 1), f \in SummaryFields,
                               v \in {"u1", "u2"} }

UpdateSamples == UpdatesWith(MaxNonNull)

\* entry0 before any update was generated
Entry0Idle(existing) ==
  entry0 = [pc |-> "idle", existing |-> existing, updates |-> AllNullUpdate,
            result |-> EmptyObject, before |-> existing]

\* normalizeReport returns the update the model generated
Normalize(updates) ==
  /\ entry0.pc = "idle"
  /\ entry0' = [entry0 EXCEPT !.pc = "normalized", !.updates = updates]
  /\ UNCHANGED notMergeVars

Merge ==
  /\ entry0.pc = "normalized"
  /\ entry0' = [entry0 EXCEPT !.pc = "merged",
                              !.result = mergeSummaryUpdates(entry0.existing, entry0.updates)]
  /\ UNCHANGED notMergeVars

\* the merge result is written over the existing summary
WriteMerged ==
  /\ entry0.pc = "merged"
  /\ entry0.existing # NoSummary
  /\ entry0' = [entry0 EXCEPT !.pc = "written",
                              !.before = entry0.existing,
                              !.existing = WriteOver(entry0.existing, entry0.result)]
  /\ UNCHANGED notMergeVars

NonNullFields(updates) == { f \in SummaryFields : updates[f] # Null }

\* C5: mergeSummaryUpdates returns exactly the fields whose update is
\* non-null, each with the update's value, whatever the existing summary;
\* written over an existing summary, it leaves every field whose update is
\* null at its existing value.
C5_MergeNonNull ==
  /\ entry0.pc \in {"merged", "written"} =>
       /\ DOMAIN entry0.result = NonNullFields(entry0.updates)
       /\ \A f \in DOMAIN entry0.result : entry0.result[f] = entry0.updates[f]
       /\ \A e \in ExistingSamples :
            mergeSummaryUpdates(e, entry0.updates) = entry0.result
  /\ entry0.pc = "written" =>
       \A f \in SummaryFields :
         entry0.existing[f] =
           IF entry0.updates[f] = Null THEN entry0.before[f] ELSE entry0.updates[f]

\* an update of two fields was merged and written over a summary whose other
\* fields kept their values
C5_Witness ==
  /\ entry0.pc = "written"
  /\ Cardinality(NonNullFields(entry0.updates)) = 2
  /\ entry0.before = OldSummary
  /\ entry0.existing # OldSummary

-----------------------------------------------------------------------------
(* Linear cache sync (syncLinearProjects, syncLinearIssues) *)

MaxSyncs == 2   \* sync runs in progress at once

SyncIds == 1..MaxSyncs

Now == "now"    \* new Date().toISOString()

Table(kind) == IF kind = "projects" THEN linear_projects ELSE linear_issues

\* the projects the run keeps: all, or those neither completed nor canceled
FilterProjects(apiProjects, includeCompleted) ==
  IF includeCompleted THEN apiProjects
  ELSE SelectSeq(apiProjects, LAMBDA p : p.state # "completed" /\ p.state # "canceled")

\* state names whose lower case contains "done", "completed" or "canceled"
ClosedStateNames == { "Done", "Completed", "Canceled", "Not Done Yet" }

FilterIssues(apiIssues, includeCompleted) ==
  IF includeCompleted THEN apiIssues
  ELSE SelectSeq(apiIssues, LAMBDA i : i.stateName \notin ClosedStateNames)

FilterItems(kind, api, includeCompleted) ==
  IF kind = "projects" THEN FilterProjects(api, includeCompleted)
  ELSE FilterIssues(api, includeCompleted)

\* JS: v || null
OrNull(v) == IF v = "" THEN Null ELSE v

projectData(project) ==
  [id |-> project.id, name |-> project.name, state |-> OrNull(project.state),
   syncedAt |-> Now, updatedAt |-> Now, isDeleted |-> FALSE, deletedAt |-> Null]

issueData(issue) ==
  [id |-> issue.id, title |-> issue.title, stateName |-> issue.stateName,
   syncedAt |-> Now, updatedAt |-> Now, isDeleted |-> FALSE, deletedAt |-> Null]

ItemData(kind, item) == IF kind = "projects" THEN projectData(item) ELSE issueData(item)

IdsOf(items) == { items[i].id : i \in 1..Len(items) }

IdleSync ==
  [pc |-> "idle", kind |-> "projects", includeCompleted |-> FALSE,
   returnedIds |-> {}, filtered |-> <<>>, existingIds |-> {}, apiIds |-> {},
   i |-> 0, toMark |-> {}]

SetTable(kind, t) ==
  IF kind = "projects"
  THEN linear_projects' = t /\ UNCHANGED linear_issues
  ELSE linear_issues' = t /\ UNCHANGED linear_projects

\* the run starts and awaits the Linear API
SyncStart(s, kind, includeCompleted) ==
  /\ syncs[s].pc = "idle"
  /\ syncs' = [syncs EXCEPT ![s] =
                 [IdleSync EXCEPT !.pc = "fetching", !.kind = kind,
                                  !.includeCompleted = includeCompleted]]
  /\ UNCHANGED <<linear_projects, linear_issues, notLinearVars>>

\* the API answers; the run filters and awaits the SELECT of the cached ids
SyncFetched(s, api) ==
  /\ syncs[s].pc = "fetching"
  /\ syncs' = [syncs EXCEPT ![s] =
                 [syncs[s] EXCEPT !.pc = "selecting",
                    !.returnedIds = IdsOf(api),
                    !.filtered = FilterItems(syncs[s].kind, api, syncs[s].includeCompleted)]]
  /\ UNCHANGED <<linear_projects, linear_issues, notLinearVars>>

\* the API call rejects: the run ends with the error
SyncFetchFailed(s) ==
  /\ syncs[s].pc = "fetching"
  /\ syncs' = [syncs EXCEPT ![s] = IdleSync]
  /\ UNCHANGED <<linear_projects, linear_issues, notLinearVars>>

StartMarking(run) ==
  IF run.i > Len(run.filtered)
  THEN [run EXCEPT !.pc = "marking", !.toMark = run.existingIds \ run.apiIds]
  ELSE run

SyncSelected(s) ==
  /\ syncs[s].pc = "selecting"
  /\ syncs' = [syncs EXCEPT ![s] =
                 StartMarking([syncs[s] EXCEPT !.pc = "upserting",
                                 !.existingIds = DOMAIN Table(syncs[s].kind),
                                 !.apiIds = IdsOf(syncs[s].filtered),
                                 !.i = 1])]
  /\ UNCHANGED <<linear_projects, linear_issues, notLinearVars>>

\* one iteration of the upsert loop: UPDATE a known id, INSERT a new one
SyncUpsert(s) ==
  LET run == syncs[s]
      item == run.filtered[run.i]
      data == ItemData(run.kind, item)
      t == Table(run.kind)
  IN /\ run.pc = "upserting"
     /\ run.i <= Len(run.filtered)
     /\ IF item.id \in run.existingIds
        THEN /\ SetTable(run.kind,
                  [id \in DOMAIN t |->
                     IF id = item.id THEN data @@ [createdAt |-> t[id].createdAt]
                     ELSE t[id]])
             /\ syncs' = [syncs EXCEPT ![s] =
                            StartMarking([run EXCEPT !.i = @ + 1])]
        ELSE IF item.id \in DOMAIN t
        THEN \* PRIMARY KEY constraint: the insert throws and the run ends
             /\ UNCHANGED <<linear_projects, linear_issues>>
             /\ syncs' = [syncs EXCEPT ![s] = IdleSync]
        ELSE /\ SetTable(run.kind, t @@ (item.id :> (data @@ [createdAt |-> Now])))
             /\ syncs' = [syncs EXCEPT ![s] =
                            StartMarking([run EXCEPT !.i = @ + 1])]
     /\ UNCHANGED notLinearVars

\* a sync that removes the rows Linear no longer returns
SyncMark_remove(s, existingId) ==
  LET run == syncs[s]
      t == Table(run.kind)
  IN /\ run.pc = "marking"
     /\ existingId \in run.toMark
     /\ SetTable(run.kind, [id \in (DOMAIN t) \ {existingId} |-> t[id]])
     /\ syncs' = [syncs EXCEPT ![s] =
                    [run EXCEPT !.toMark = @ \ {existingId}]]
     /\ UNCHANGED notLinearVars

\* one iteration of the mark-deleted loop
SyncMark(s, existingId) ==
  LET run == syncs[s]
      t == Table(run.kind)
  IN /\ run.pc = "marking"
     /\ existingId \in run.toMark
     /\ SetTable(run.kind,
          [id \in DOMAIN t |->
             IF id = existingId
             THEN [t[id] EXCEPT !.isDeleted = TRUE, !.deletedAt = Now, !.syncedAt = Now]
             ELSE t[id]])
     /\ syncs' = [syncs EXCEPT ![s] =
                    [run EXCEPT !.toMark = @ \ {existingId}]]
     /\ UNCHANGED notLinearVars

\* the final count; the run returns
SyncCount(s) ==
  /\ syncs[s].pc = "marking"
  /\ syncs[s].toMark = {}
  /\ syncs' = [syncs EXCEPT ![s] = IdleSync]
  /\ UNCHANGED <<linear_projects, linear_issues, notLinearVars>>

(* What the Linear API returns *)

Project(id, state) == [id |-> id, name |-> "n", state |-> state]
Issue(id, stateName) == [id |-> id, title |-> "t", stateName |-> stateName]

ApiProjectSamples ==
  { <<Project("p1", "completed"), Project("p2", "")>>,
    <<Project("p2", "canceled")>> }

ApiIssueSamples == { <<Issue("i1", "Done")>> }

ApiSamples(kind) == IF kind = "projects" THEN ApiProjectSamples ELSE ApiIssueSamples

LinearIdle ==
  /\ linear_projects = [id \in {} |-> Null]
  /\ linear_issues = [id \in {} |-> Null]
  /\ syncs = [s \in SyncIds |-> IdleSync]

NextLinear ==
  \/ \E s \in SyncIds, k \in {"projects", "issues"}, c \in BOOLEAN : SyncStart(s, k, c)
  \/ \E s \in SyncIds : \E api \in ApiSamples(syncs[s].kind) : SyncFetched(s, api)
  \/ \E s \in SyncIds : SyncFetchFailed(s)
  \/ \E s \in SyncIds : SyncSelected(s)
  \/ \E s \in SyncIds : SyncUpsert(s)
  \/ \E s \in SyncIds : \E id \in syncs[s].toMark : SyncMark(s, id)
  \/ \E s \in SyncIds : SyncCount(s)

FlaggedWithDate(t) ==
  \A id \in DOMAIN t : t[id].isDeleted <=> t[id].deletedAt # Null

\* C6: no sync step removes a cached id, and a row is flagged is_deleted
\* exactly when its deleted_at is set; the step that flags a row changes
\* nothing else of it but synced_at.
C6_HistoryPreserved ==
  /\ [][ /\ DOMAIN linear_projects \subseteq DOMAIN linear_projects'
         /\ DOMAIN linear_issues \subseteq DOMAIN linear_issues' ]_vars
  /\ [](FlaggedWithDate(linear_projects) /\ FlaggedWithDate(linear_issues))

\* a cached project that Linear no longer returns has been flagged
C6_Witness ==
  /\ "p1" \in DOMAIN linear_projects
  /\ linear_projects["p1"].isDeleted
  /\ \E s \in SyncIds :
       /\ syncs[s].pc = "marking" /\ syncs[s].kind = "projects"
       /\ syncs[s].includeCompleted
       /\ "p1" \in syncs[s].existingIds
       /\ "p1" \notin syncs[s].apiIds
       /\ "p1" \notin syncs[s].toMark

\* the ids a run in its mark-deleted loop has flagged so far
MarkedBy(run) == (run.existingIds \ run.apiIds) \ run.toMark

\* C20: a sync marks as deleted only what is cached but absent from the
\* Linear API: for either value of includeCompleted, a row the run has
\* flagged is_deleted has an id that is not among the items the API returned
\* to that run.
C20_MarksOnlyAbsent ==
  \A s \in SyncIds :
    syncs[s].pc = "marking" =>
      \A id \in MarkedBy(syncs[s]) :
        Table(syncs[s].kind)[id].isDeleted => id \notin syncs[s].returnedIds

\* what the code keeps of C20: a run with includeCompleted = true flags only
\* ids the API did not return, and every run flags only ids outside the
\* items it kept after filtering
C20_MarksOnlyUnkept ==
  \A s \in SyncIds :
    syncs[s].pc = "marking" =>
      /\ MarkedBy(syncs[s]) \cap IdsOf(syncs[s].filtered) = {}
      /\ syncs[s].includeCompleted =>
            MarkedBy(syncs[s]) \cap syncs[s].returnedIds = {}

-----------------------------------------------------------------------------
(* Typed errors (web/lib/errors.ts) and withErrorHandler (web/lib/api-handler.ts).
   A message is a sequence of its parts; an optional constructor argument
   that was not given is Null (code) or <<>> (details, identifier). *)

AppErrorClasses ==
  { "AppError", "NotFoundError", "ValidationError", "UnauthorizedError",
    "ForbiddenError", "ConflictError", "RateLimitError",
    "ExternalServiceError", "DatabaseError" }

\* a thrown value: an instance of class cls, or a non-Error value
Thrown(cls, message, statusCode, code, details) ==
  [class |-> cls, message |-> message, statusCode |-> statusCode,
   code |-> code, details |-> details]

AppError(message, statusCode, code) ==
  Thrown("AppError", message, statusCode, code, <<>>)

DefaultStatusCode == 500

\* new AppError(message, ...given): statusCode and code are optional
AppErrorOf(message, given) ==
  AppError(message,
           IF Len(given) >= 1 THEN given[1] ELSE DefaultStatusCode,
           IF Len(given) >= 2 THEN given[2] ELSE Null)

NotFoundError(resource, identifier) ==
  Thrown("NotFoundError",
         IF identifier # <<>> THEN <<resource, "'", identifier[1], "'", "not found">>
         ELSE <<resource, "not found">>,
         404, "NOT_FOUND", <<>>)

ValidationError(message, details) ==
  Thrown("ValidationError", message, 400, "VALIDATION_ERROR", details)

UnauthorizedError(message) == Thrown("UnauthorizedError", message, 401, "UNAUTHORIZED", <<>>)

ForbiddenError(message) == Thrown("ForbiddenError", message, 403, "FORBIDDEN", <<>>)

\* a conflict reported as a bad request
ConflictError_badRequest(message) == Thrown("ConflictError", message, 400, "CONFLICT", <<>>)

ConflictError(message) == Thrown("ConflictError", message, 409, "CONFLICT", <<>>)

RateLimitError(message) == Thrown("RateLimitError", message, 429, "RATE_LIMITED", <<>>)

ExternalServiceError(service) ==
  Thrown("ExternalServiceError", <<"External service error:", service>>,
         502, "EXTERNAL_SERVICE_ERROR", <<>>)

DatabaseError(operation) ==
  Thrown("DatabaseError", <<"Database error during", operation>>,
         500, "DATABASE_ERROR", <<>>)

\* values that are no AppError: an Error, a string, anything else
PlainError(cls, message) == Thrown(cls, message, 0, Null, <<>>)
ThrownString(s) == Thrown("string", s, 0, Null, <<>>)
ThrownOther(what) == Thrown(what, <<>>, 0, Null, <<>>)

ErrorClasses ==
  AppErrorClasses \cup { "Error", "TypeError", "SqliteError", "ZodError", "SyntaxError" }

isAppError(error) == error.class \in AppErrorClasses

getErrorMessage(error) ==
  IF error.class \in ErrorClasses THEN error.message
  ELSE IF error.class = "string" THEN error.message
  ELSE <<"An unknown error occurred">>

\* AppError.toJSON, and ValidationError's override
toJSON(error) ==
  LET base == [error |-> error.message, code |-> error.code,
               statusCode |-> error.statusCode]
  IN IF error.class = "ValidationError"
     THEN [error |-> base.error, code |-> base.code,
           statusCode |-> base.statusCode, details |-> error.details]
     ELSE base

\* JSON.stringify of a toJSON object: undefined members are left out
JsonOfError(obj) ==
  LET undefinedKeys ==
        (IF obj.code = Null THEN {"code"} ELSE {})
        \cup (IF "details" \in DOMAIN obj /\ obj.details = <<>> THEN {"details"} ELSE {})
  IN [k \in (DOMAIN obj) \ undefinedKeys |-> obj[k]]

\* NextResponse.json(body, { status })
JsonResponse(body, status) == [status |-> status, body |-> body]

\* what a call of the wrapped handler does
Returned(response) == [kind |-> "returned", response |-> response, error |-> ThrownOther("none")]
Threw(error) == [kind |-> "threw", response |-> JsonResponse(EmptyObject, 0), error |-> error]

Resolved(response) == [settled |-> "resolved", response |-> response, error |-> ThrownOther("none")]
Rejected(error) == [settled |-> "rejected", response |-> JsonResponse(EmptyObject, 0), error |-> error]

InternalError == [error |-> <<"Internal server error">>, code |-> "INTERNAL_ERROR"]

\* a wrapper that answers known errors only
withErrorHandler_known(outcome, env) ==
  IF outcome.kind = "returned" THEN Resolved(outcome.response)
  ELSE IF isAppError(outcome.error)
  THEN Resolved(JsonResponse(JsonOfError(toJSON(outcome.error)), outcome.error.statusCode))
  ELSE Rejected(outcome.error)

\* the promise of the wrapped route handler, given what the handler did
withErrorHandler(outcome, env) ==
  IF outcome.kind = "returned" THEN Resolved(outcome.response)
  ELSE IF isAppError(outcome.error)
  THEN Resolved(JsonResponse(JsonOfError(toJSON(outcome.error)), outcome.error.statusCode))
  ELSE Resolved(JsonResponse(
         IF env = "development"
         THEN Assign(InternalError, "message", getErrorMessage(outcome.error))
         ELSE InternalError,
         500))

(* Calls of a wrapped handler *)

NodeEnvs == { "development", "production", "test", Null }

Messages == { <<"m1">>, <<"Something went wrong">> }

ThrownValues ==
  { AppErrorOf(m, <<>>) : m \in Messages }
  \cup { AppErrorOf(<<"Bad request">>, <<400, "BAD_REQUEST">>),
         AppErrorOf(<<"Database check failed">>, <<503, "DB_UNHEALTHY">>) }
  \cup { NotFoundError(r, i) : r \in {"Skill", "Entry"}, i \in { <<>>, <<"x">> } }
  \cup { ValidationError(m, d) : m \in Messages,
                                 d \in { <<>>, << [title |-> <<"Required">>] >> } }
  \cup { UnauthorizedError(m) : m \in { <<"Authentication required">>, <<"Invalid token">> } }
  \cup { ForbiddenError(m) : m \in { <<"Permission denied">>, <<"m1">> } }
  \cup { ConflictError(m) : m \in Messages }
  \cup { RateLimitError(m) : m \in { <<"Too many requests">>, <<"m1">> } }
  \cup { ExternalServiceError(s) : s \in {"Linear", "AI"} }
  \cup { DatabaseError(o) : o \in {"insert", "select"} }
  \cup { PlainError(c, m) : c \in {"Error", "TypeError", "SqliteError"}, m \in Messages }
  \cup { ThrownString(m) : m \in Messages }
  \cup { ThrownOther(w) : w \in {"null", "object", "number"} }

HandlerOutcomes ==
  { Returned(JsonResponse([ok |-> TRUE], s)) : s \in {200, 201} }
  \cup { Threw(e) : e \in ThrownValues }

NotCalled ==
  [called |-> FALSE, outcome |-> Returned(JsonResponse(EmptyObject, 0)),
   result |-> Resolved(JsonResponse(EmptyObject, 0))]

ErrIdle == nodeEnv = "production" /\ wrapped = NotCalled

\* one request through a wrapped handler that ends as outcome says
CallWrapped(outcome) ==
  /\ wrapped' = [called |-> TRUE, outcome |-> outcome,
                 result |-> withErrorHandler(outcome, nodeEnv)]
  /\ UNCHANGED <<nodeEnv, notErrVars>>

\* C10: a wrapped handler always resolves to a response: what the handler
\* returned; for a thrown AppError (or subclass) the error's statusCode with
\* its toJSON body; for any other thrown value status 500 with code
\* INTERNAL_ERROR, carrying a message only when NODE_ENV is development.
C10_ErrorsBecomeResponses ==
  wrapped.called =>
    LET o == wrapped.outcome
        r == wrapped.result
        e == o.error
    IN /\ r.settled = "resolved"
       /\ o.kind = "returned" => r.response = o.response
       /\ (o.kind = "threw" /\ e.class \in AppErrorClasses) =>
            /\ r.response.status = e.statusCode
            /\ r.response.body.error = e.message
            /\ r.response.body.statusCode = e.statusCode
            /\ DOMAIN r.response.body \subseteq {"error", "code", "statusCode", "details"}
            /\ e.code # Null =>
                 "code" \in DOMAIN r.response.body /\ r.response.body.code = e.code
            /\ "details" \in DOMAIN r.response.body =>
                 e.class = "ValidationError" /\ r.response.body.details = e.details
       /\ (o.kind = "threw" /\ e.class \notin AppErrorClasses) =>
            /\ r.response.status = 500
            /\ r.response.body.code = "INTERNAL_ERROR"
            /\ "message" \in DOMAIN r.response.body => nodeEnv = "development"

\* an Error that is no AppError was thrown in production and answered 500
\* without its message
C10_Witness ==
  /\ wrapped.called
  /\ wrapped.outcome.kind = "threw"
  /\ wrapped.outcome.error.class = "TypeError"
  /\ nodeEnv = "production"
  /\ wrapped.result.settled = "resolved"
  /\ wrapped.result.response.status = 500
  /\ "message" \notin DOMAIN wrapped.result.response.body

\* C12: each typed error class carries a fixed status and code whatever its
\* message: AppError defaults to 500 with no code, NotFoundError is 404
\* NOT_FOUND, ValidationError 400 VALIDATION_ERROR, UnauthorizedError 401
\* UNAUTHORIZED, ForbiddenError 403 FORBIDDEN, ConflictError 409 CONFLICT,
\* DatabaseError 500 DATABASE_ERROR; toJSON returns exactly error, code and
\* statusCode, and details as well for a ValidationError.
C12_FixedStatusAndCode ==
  /\ \A m \in Messages :
       AppErrorOf(m, <<>>).statusCode = 500 /\ AppErrorOf(m, <<>>).code = Null
  /\ (wrapped.called /\ wrapped.outcome.kind = "threw"
        /\ wrapped.outcome.error.class \in AppErrorClasses) =>
       LET e == wrapped.outcome.error
           json == toJSON(e)
           fixed == [NotFoundError |-> <<404, "NOT_FOUND">>,
                     ValidationError |-> <<400, "VALIDATION_ERROR">>,
                     UnauthorizedError |-> <<401, "UNAUTHORIZED">>,
                     ForbiddenError |-> <<403, "FORBIDDEN">>,
                     ConflictError |-> <<409, "CONFLICT">>,
                     DatabaseError |-> <<500, "DATABASE_ERROR">>]
       IN /\ e.class \in DOMAIN fixed =>
               e.statusCode = fixed[e.class][1] /\ e.code = fixed[e.class][2]
          /\ DOMAIN json = {"error", "code", "statusCode"}
                           \cup (IF e.class = "ValidationError" THEN {"details"} ELSE {})
          /\ json.error = e.message
          /\ json.code = e.code
          /\ json.statusCode = e.statusCode
          /\ e.class = "ValidationError" => json.details = e.details

\* a ConflictError was thrown with a message other than the usual one
C12_Witness ==
  /\ wrapped.called
  /\ wrapped.outcome.kind = "threw"
  /\ wrapped.outcome.error.class = "ConflictError"
  /\ wrapped.outcome.error.message = <<"Something went wrong">>
  /\ wrapped.outcome.error.statusCode = 409
  /\ wrapped.result.response.status = 409

-----------------------------------------------------------------------------
(* Portfolio projects: /api/portfolio-projects and /api/portfolio-projects/[id].
   portfolio_projects holds the rows in rowid order.  A request body is a
   record of the members it carries; a JS value of the body is a token. *)

ProjectStatuses == { "shipped", "wip", "archived" }   \* CHECK (status IN ...)

\* JS: !!v
Truthy(v) == v \in { "true", "1" }

\* JSON.stringify(v) and JSON.parse(text || fallback) of a JSON column
JsonStringify(v) == <<"json", v>>
JsonParse(text) == text[2]

\* body.f, or dflt when the body has no member f
Member(body, f, dflt) == IF f \in DOMAIN body THEN body[f] ELSE dflt

ProjectIds(rows) == { rows[i].id : i \in 1..Len(rows) }

\* SELECT ... WHERE id = ? (.get()): the row, or NoRow
ProjectById(id) ==
  IF id \in ProjectIds(portfolio_projects)
  THEN portfolio_projects[CHOOSE i \in 1..Len(portfolio_projects) :
                            portfolio_projects[i].id = id]
  ELSE NoRow

\* the row as the routes return it, its JSON columns parsed
ParsedProject(project) ==
  [project EXCEPT !.technologies = JsonParse(project.technologies)]

\* NOT NULL and CHECK constraints of the table, and its primary key
RowAllowed(row, others) ==
  /\ row.id # Null /\ row.title # Null /\ row.category # Null
  /\ row.status \in ProjectStatuses
  /\ row.id \notin ProjectIds(others)

PortfolioResponse(method, id, request, status, body) ==
  [method |-> method, id |-> id, request |-> request, status |-> status, body |-> body]

ErrorBody(message) == [error |-> message]

InvalidJson == [invalidJson |-> TRUE]

\* ORDER BY featured DESC, sort_order ASC
ProjectBefore(a, b) ==
  \/ a.featured /\ ~b.featured
  \/ a.featured = b.featured /\ a.sortOrder < b.sortOrder

RECURSIVE OrderProjects(_)
OrderProjects(rows) ==
  IF rows = <<>> THEN <<>>
  ELSE LET first == CHOOSE i \in 1..Len(rows) :
                      /\ \A j \in 1..Len(rows) : ~ProjectBefore(rows[j], rows[i])
                      /\ \A j \in 1..(i - 1) : ProjectBefore(rows[j], rows[i])
                                               \/ ProjectBefore(rows[i], rows[j])
           rest == [k \in 1..(Len(rows) - 1) |-> IF k < first THEN rows[k] ELSE rows[k + 1]]
       IN <<rows[first]>> \o OrderProjects(rest)

\* GET /api/portfolio-projects, with at most one filter
GetProjects(filter) ==
  LET matching == SelectSeq(portfolio_projects,
                    LAMBDA p : \A f \in DOMAIN filter : p[f] = filter[f])
      ordered == OrderProjects(matching)
      parsed == [i \in 1..Len(ordered) |-> ParsedProject(ordered[i])]
  IN /\ portfolioResp' = PortfolioResponse("GET", Null, filter, 200,
                           [projects |-> parsed, total |-> Len(parsed)])
     /\ UNCHANGED <<portfolio_projects, notPortfolioVars>>

\* GET /api/portfolio-projects/[id]
GetProject(id) ==
  LET project == ProjectById(id)
  IN /\ portfolioResp' =
          IF project = NoRow
          THEN PortfolioResponse("GET", id, EmptyObject, 404, ErrorBody(<<"Project not found">>))
          ELSE PortfolioResponse("GET", id, EmptyObject, 200, ParsedProject(project))
     /\ UNCHANGED <<portfolio_projects, notPortfolioVars>>

\* the row POST inserts: the body's members with the route's defaults
NewProject(body) ==
  [id |-> Member(body, "id", Null),
   title |-> Member(body, "title", Null),
   category |-> Member(body, "category", Null),
   status |-> Member(body, "status", "shipped"),
   featured |-> Truthy(Member(body, "featured", "false")),
   sortOrder |-> Member(body, "sortOrder", 0),
   technologies |-> JsonStringify(Member(body, "technologies", <<>>)),
   updatedAt |-> "created"]

\* JS: !id || !title || !category
MissingProjectFields(body) ==
  \E f \in {"id", "title", "category"} : Member(body, f, "") \in {"", Null}

\* POST /api/portfolio-projects: 0 when the insert is reached
PostProjectStatus(body) ==
  IF body = InvalidJson THEN 500
  ELSE IF MissingProjectFields(body) THEN 400
  ELSE IF ProjectById(body.id) # NoRow THEN 409
  ELSE IF ~RowAllowed(NewProject(body), portfolio_projects) THEN 500
  ELSE 0

\* POST /api/portfolio-projects, the handler with its own try/catch
PostProject(body) ==
  LET status == PostProjectStatus(body)
  IN IF status = 0
     THEN /\ portfolio_projects' = Append(portfolio_projects, NewProject(body))
          /\ portfolioResp' = PortfolioResponse("POST", Null, body, 200,
                                ParsedProject(NewProject(body)))
          /\ UNCHANGED notPortfolioVars
     ELSE /\ portfolioResp' = PortfolioResponse("POST", Null, body, status,
                                ErrorBody(IF status = 400
                                          THEN <<"id, title, and category are required">>
                                          ELSE IF status = 409
                                          THEN <<"Project with this ID already exists">>
                                          ELSE <<"Failed to create portfolio project">>))
          /\ UNCHANGED <<portfolio_projects, notPortfolioVars>>

\* what the handler wrapped by withErrorHandler does with the body
PostProjectOutcome(body) ==
  IF body = InvalidJson \/ MissingProjectFields(body)
  THEN Threw(ValidationError(<<"Validation failed">>, <<>>))
  ELSE IF ProjectById(body.id) # NoRow
  THEN Threw(ConflictError(<<"Project with this ID already exists">>))
  ELSE IF ~RowAllowed(NewProject(body), portfolio_projects)
  THEN Threw(PlainError("SqliteError", <<"constraint failed">>))
  ELSE Returned(JsonResponse(ParsedProject(NewProject(body)), 200))

\* POST /api/portfolio-projects, the handler wrapped by withErrorHandler
PostProjectWrapped(body) ==
  LET outcome == PostProjectOutcome(body)
      result == withErrorHandler(outcome, nodeEnv)
  IN /\ portfolio_projects' = IF outcome.kind = "returned"
                              THEN Append(portfolio_projects, NewProject(body))
                              ELSE portfolio_projects
     /\ portfolioResp' = PortfolioResponse("POST", Null, body,
                           result.response.status, result.response.body)
     /\ UNCHANGED notPortfolioVars

\* an update object that also copies the body's id
updateData_withId(body) ==
  LET fields == (DOMAIN body) \cap {"id", "title", "category", "status", "featured",
                                    "sortOrder", "technologies"}
  IN [f \in fields \cup {"updatedAt"} |->
        IF f = "updatedAt" THEN Now
        ELSE IF f = "featured" THEN Truthy(body[f])
        ELSE IF f = "technologies" THEN JsonStringify(body[f])
        ELSE body[f]]

\* PUT: the update object built from the members the body carries
updateData(body) ==
  LET fields == (DOMAIN body) \cap {"title", "category", "status", "featured",
                                    "sortOrder", "technologies"}
  IN [f \in fields \cup {"updatedAt"} |->
        IF f = "updatedAt" THEN Now
        ELSE IF f = "featured" THEN Truthy(body[f])
        ELSE IF f = "technologies" THEN JsonStringify(body[f])
        ELSE body[f]]

\* UPDATE ... SET data
SetColumns(row, data) == [f \in DOMAIN row |-> IF f \in DOMAIN data THEN data[f] ELSE row[f]]

\* PUT /api/portfolio-projects/[id]
PutProject(id, body) ==
  LET existing == ProjectById(id)
      updated == SetColumns(existing, updateData(body))
      others == SelectSeq(portfolio_projects, LAMBDA p : p.id # id)
  IN IF body = InvalidJson
     THEN /\ portfolioResp' = PortfolioResponse("PUT", id, body, 500,
                                ErrorBody(<<"Failed to update portfolio project">>))
          /\ UNCHANGED <<portfolio_projects, notPortfolioVars>>
     ELSE IF existing = NoRow
     THEN /\ portfolioResp' = PortfolioResponse("PUT", id, body, 404,
                                ErrorBody(<<"Project not found">>))
          /\ UNCHANGED <<portfolio_projects, notPortfolioVars>>
     ELSE IF ~RowAllowed(updated, others)
     THEN /\ portfolioResp' = PortfolioResponse("PUT", id, body, 500,
                                ErrorBody(<<"constraint failed">>))
          /\ UNCHANGED <<portfolio_projects, notPortfolioVars>>
     ELSE /\ portfolio_projects' =
               [i \in 1..Len(portfolio_projects) |->
                  IF portfolio_projects[i].id = id THEN updated
                  ELSE portfolio_projects[i]]
          /\ portfolioResp' =
               LET project == IF updated.id = id THEN ParsedProject(updated) ELSE NoRow
               IN PortfolioResponse("PUT", id, body, 200, project)
          /\ UNCHANGED notPortfolioVars

(* Requests on the portfolio routes *)

PortfolioIds == { "p1", "p2" }

PostBodies ==
  { [id |-> "p1", title |-> "t1", category |-> "c1"],
    [id |-> "p2", title |-> "t1", category |-> "c1", status |-> "wip",
     featured |-> "true", sortOrder |-> 1, technologies |-> <<"ts">>],
    [id |-> "p1", title |-> "t2", category |-> "c1", status |-> "bogus"],
    [title |-> "t1", category |-> "c1"],
    [id |-> "p2", title |-> "", category |-> "c1"],
    InvalidJson }

PutBodies ==
  { EmptyObject,
    [title |-> "t2"],
    [id |-> "p2", title |-> "t2"],
    [id |-> "p3", featured |-> "1"],
    [status |-> "archived"],
    [status |-> "bogus"],
    [title |-> Null],
    [sortOrder |-> 2, technologies |-> <<"go">>],
    InvalidJson }

ListFilters == { EmptyObject, [category |-> "c1"], [status |-> "wip"], [featured |-> TRUE] }

NoPortfolioResponse == PortfolioResponse("", Null, EmptyObject, 0, EmptyObject)

PortfolioIdle == portfolio_projects = <<>> /\ portfolioResp = NoPortfolioResponse

NextPortfolio ==
  \/ \E filter \in ListFilters : GetProjects(filter)
  \/ \E id \in PortfolioIds : GetProject(id)
  \/ \E body \in PostBodies : PostProject(body)
  \/ \E body \in PostBodies : PostProjectWrapped(body)
  \/ \E id \in PortfolioIds, body \in PutBodies : PutProject(id, body)

\* C7: no request on the portfolio routes removes a stored project or changes
\* the id of a stored row, and a PUT that succeeds answers with the project
\* under the id of its path.
C7_IdsStable ==
  LET p == portfolio_projects
  IN Len(p) <= Len(p') /\ \A i \in 1..Len(p) : p'[i].id = p[i].id

C7_PutAnswersSameId ==
  (portfolioResp.method = "PUT" /\ portfolioResp.status = 200) =>
     /\ portfolioResp.body # NoRow
     /\ portfolioResp.body.id = portfolioResp.id
     /\ portfolioResp.id \in ProjectIds(portfolio_projects)

C7_NeverDeleted == [][C7_IdsStable]_vars /\ []C7_PutAnswersSameId

\* a PUT whose body carries another id succeeded and the project kept its id
C7_Witness ==
  /\ portfolioResp.method = "PUT"
  /\ portfolioResp.status = 200
  /\ "id" \in DOMAIN portfolioResp.request
  /\ portfolioResp.request.id # portfolioResp.id
  /\ ProjectIds(portfolio_projects) = PortfolioIds

-----------------------------------------------------------------------------
(* Zod schemas (web/lib/validations) and the web API routes that validate
   with them.  A query string or a JSON body is a record of the members it
   carries; a numeric query value is a sequence of characters.  A schema
   gives the parsed data and the issues found; no issue is success. *)

MaxConversations == 2   \* rows of conversations

ZodIssue(path, message) == [path |-> path, message |-> message]

\* JS Number(s) of a string, as z.coerce.number() applies it
coerceNumber(s) ==
  IF s = <<>> THEN [nan |-> FALSE, n |-> 0]
  ELSE LET digits == IF Head(s) \in {"-", "+"} THEN Tail(s) ELSE s
           r == ParseDigits(digits, 0, FALSE)
       IN IF digits = <<>> \/ \E i \in 1..Len(digits) : DigitVal(digits[i]) < 0
          THEN [nan |-> TRUE, n |-> 0]
          ELSE [nan |-> FALSE, n |-> IF Head(s) = "-" THEN 0 - r.n ELSE r.n]

\* z.coerce.number().min(lo).max(hi).default(d) on member f of params
\* (hi = <<>>: no maximum)
NumberField(params, f, lo, hi, d) ==
  IF f \notin DOMAIN params THEN [n |-> d, issues |-> <<>>]
  ELSE LET v == coerceNumber(params[f])
       IN [n |-> v.n,
           issues |-> IF v.nan THEN << ZodIssue(f, "invalid_type") >>
                      ELSE IF v.n < lo THEN << ZodIssue(f, "too_small") >>
                      ELSE IF hi # <<>> /\ v.n > hi[1] THEN << ZodIssue(f, "too_big") >>
                      ELSE <<>>]

\* z.string().min(1).optional() on member f of params
NonEmptyField(params, f) ==
  [v |-> Member(params, f, Null),
   issues |-> IF f \in DOMAIN params /\ params[f] = ""
              THEN << ZodIssue(f, "too_small") >> ELSE <<>>]

\* a schema that coerces but sets no range
paginationSchema_unbounded(params) ==
  LET limit == NumberField(params, "limit", -1000, <<>>, 50)
      offset == NumberField(params, "offset", -1000, <<>>, 0)
  IN [data |-> [limit |-> limit.n, offset |-> offset.n],
      issues |-> limit.issues \o offset.issues]

paginationSchema(params) ==
  LET limit == NumberField(params, "limit", 1, <<100>>, 50)
      offset == NumberField(params, "offset", 0, <<>>, 0)
  IN [data |-> [limit |-> limit.n, offset |-> offset.n],
      issues |-> limit.issues \o offset.issues]

\* paginationSchema.extend({ repository, branch })
journalQuerySchema(params) ==
  LET page == paginationSchema(params)
      repository == NonEmptyField(params, "repository")
      branch == NonEmptyField(params, "branch")
  IN [data |-> [limit |-> page.data.limit, offset |-> page.data.offset,
                repository |-> repository.v, branch |-> branch.v],
      issues |-> page.issues \o repository.issues \o branch.issues]

\* the messages of the issues, by path
formatZodError(issues) ==
  LET paths == { issues[i].path : i \in 1..Len(issues) }
  IN [p \in paths |->
        LET at == SelectSeq(issues, LAMBDA issue : issue.path = p)
        IN [i \in 1..Len(at) |-> at[i].message]]

\* a ZodError as schema.parse throws it
ZodError(issues) ==
  PlainError("ZodError", [i \in 1..Len(issues) |-> issues[i].message])

Valid(data) == [success |-> TRUE, data |-> data, error |-> ThrownOther("none")]
Invalid(error) == [success |-> FALSE, data |-> EmptyObject, error |-> error]

\* (parsed: what schema.parse made of the query)
validateQuery(parsed) ==
  IF parsed.issues = <<>> THEN Valid(parsed.data)
  ELSE Invalid(ValidationError(<<"Invalid query parameters">>,
                               << formatZodError(parsed.issues) >>))

\* request.json() throws a SyntaxError for a body that is no JSON
validateBody(json_ok, parsed) ==
  IF ~json_ok
  THEN Invalid(ValidationError(<<"Invalid JSON in request body">>, <<>>))
  ELSE IF parsed.issues = <<>> THEN Valid(parsed.data)
  ELSE Invalid(ValidationError(<<"Invalid request body">>,
                               << formatZodError(parsed.issues) >>))

\* one request through a wrapped route: what was asked and what was answered
\* (before: the tables the routes write, as the request found them)
Answer(route, request, outcome) ==
  webResp' = [route |-> route, request |-> request,
              before |-> <<skills, conversations>>,
              response |-> withErrorHandler(outcome, nodeEnv).response]

NoWebResponse ==
  [route |-> "", request |-> EmptyObject, before |-> << <<>>, <<>> >>,
   response |-> JsonResponse(EmptyObject, 0)]

(* GET /api/atropos/history.  source_context is a sequence of characters,
   <<>> for NULL; LIKE is matched on lower-case text.  An undefined member
   of the object given to the schema is <<>> (source) or Null (hasChanges). *)

Contains(s, t) ==
  \E i \in 0..(Len(t) - Len(s)) : SubSeq(t, i + 1, i + Len(s)) = s

\* searchParams.get(f) || dflt
GetOr(query, f, empty, dflt) ==
  IF f \in DOMAIN query /\ query[f] # empty THEN query[f] ELSE dflt

historyQuerySchema(params) ==
  LET limit == NumberField(params, "limit", 1, <<100>>, 20)
      offset == NumberField(params, "offset", 0, <<>>, 0)
      hasChanges == params.hasChanges
  IN [data |-> [limit |-> limit.n, offset |-> offset.n,
                source |-> params.source,
                hasChanges |-> hasChanges],
      issues |-> limit.issues \o offset.issues
                 \o IF hasChanges \in {"true", "false", Null} THEN <<>>
                    ELSE << ZodIssue("hasChanges", "invalid_enum_value") >>]

CorrectionsOf(params) ==
  SelectSeq(atropos_corrections,
            LAMBDA c : /\ c.user_id = "default"
                       /\ params.source # <<>> => Contains(params.source, c.source_context)
                       /\ params.hasChanges # Null =>
                            c.had_changes = (IF params.hasChanges = "true" THEN 1 ELSE 0))

\* ORDER BY created_at DESC
RECURSIVE OrderByCreatedDesc(_)
OrderByCreatedDesc(rows) ==
  IF rows = <<>> THEN <<>>
  ELSE LET i == CHOOSE i \in 1..Len(rows) :
                  \A j \in 1..Len(rows) :
                    \/ rows[i].created_at > rows[j].created_at
                    \/ (rows[i].created_at = rows[j].created_at /\ i <= j)
       IN <<rows[i]>> \o OrderByCreatedDesc(SubSeq(rows, 1, i - 1) \o SubSeq(rows, i + 1, Len(rows)))

\* the object the handler gives to querySchema.parse
historyInput(query) ==
  [limit |-> GetOr(query, "limit", <<>>, <<"2", "0">>),
   offset |-> GetOr(query, "offset", <<>>, <<"0">>),
   source |-> GetOr(query, "source", <<>>, <<>>),
   hasChanges |-> GetOr(query, "hasChanges", "", Null)]

GetAtroposHistory(query) ==
  LET parsed == historyQuerySchema(historyInput(query))
      params == parsed.data
      matching == OrderByCreatedDesc(CorrectionsOf(params))
      corrections == SqlLimitOffset(matching, params.limit, params.offset)
      total == Len(matching)
  IN /\ Answer("GET /api/atropos/history", query,
               IF parsed.issues # <<>> THEN Threw(ZodError(parsed.issues))
               ELSE Returned(JsonResponse(
                      [corrections |-> [i \in 1..Len(corrections) |->
                                          [id |-> corrections[i].id,
                                           hadChanges |-> corrections[i].had_changes = 1,
                                           sourceContext |-> corrections[i].source_context,
                                           createdAt |-> corrections[i].created_at]],
                       total |-> total, limit |-> params.limit, offset |-> params.offset,
                       hasMore |-> params.offset + Len(corrections) < total],
                      200)))
     /\ UNCHANGED <<skills, conversations, atropos_corrections, errVars, notWebVars>>

(* POST /api/conversations.  saveConversationSchema lies outside the
   sources: a request carries the issues the schema finds in its body. *)

saveConversation(title, messages) ==
  Append(conversations,
         [id |-> Len(conversations) + 1, title |-> title, messages |-> messages])

PostConversation(request) ==
  LET parsed == request.json_ok /\ request.issues = <<>>
  IN /\ Len(conversations) < MaxConversations
     /\ Answer("POST /api/conversations", request,
               IF ~request.json_ok
               THEN Threw(PlainError("SyntaxError", <<"Unexpected token">>))
               ELSE IF request.issues # <<>> THEN Threw(ZodError(request.issues))
               ELSE Returned(JsonResponse(
                      [id |-> Len(conversations) + 1,
                       message |-> "Conversation saved successfully"], 200)))
     /\ conversations' = IF parsed
                         THEN saveConversation(request.body.title, request.body.messages)
                         ELSE conversations
     /\ UNCHANGED <<skills, atropos_corrections, errVars, notWebVars>>

(* GET /api/entries.  The rows of journal_entries carry created_at here. *)

\* the where conditions: a filter for each parameter given
entriesWhere_repositoryOnly(rows, repository, branch) ==
  SelectSeq(rows, LAMBDA e : repository # Null => e.repository = repository)

entriesWhere(rows, repository, branch) ==
  SelectSeq(rows, LAMBDA e : /\ repository # Null => e.repository = repository
                             /\ branch # Null => e.branch = branch)

attachmentCount(hash) ==
  Len(SelectSeq(entry_attachments, LAMBDA a : a.commit_hash = hash))

GetEntries(query) ==
  LET result == validateQuery(journalQuerySchema(query))
      q == result.data
      matching == OrderByCreatedDesc(entriesWhere(journal_entries, q.repository, q.branch))
      entries == SqlLimitOffset(matching, q.limit, q.offset)
      total == Len(matching)
  IN /\ Answer("GET /api/entries", query,
               IF ~result.success THEN Threw(result.error)
               ELSE Returned(JsonResponse(
                      [entries |-> [i \in 1..Len(entries) |->
                                      Assign(entries[i], "attachment_count",
                                             attachmentCount(entries[i].commit_hash))],
                       total |-> total, limit |-> q.limit, offset |-> q.offset,
                       has_more |-> q.offset + Len(entries) < total],
                      200)))
     /\ UNCHANGED <<skills, conversations, atropos_corrections, errVars, notWebVars>>

(* POST /api/cv/skills.  A JSON number is [type |-> "number", n |-> n]; an
   id is a sequence of characters; a url is a string that the URL parser
   takes or refuses. *)

MaxSkills == 2   \* rows of skills

LowerAlnumDash ==
  { "a", "b", "c", "d", "e", "f", "g", "h", "i", "j", "k", "l", "m", "n", "o",
    "p", "q", "r", "s", "t", "u", "v", "w", "x", "y", "z",
    "0", "1", "2", "3", "4", "5", "6", "7", "8", "9", "-" }

\* new URL(s) does not throw
ParsesAsUrl(s) == s \in { "https://example.com", "http://localhost:3000" }

\* z.string().min(1) on a required member
RequiredText(body, f) ==
  IF f \notin DOMAIN body THEN << ZodIssue(f, "invalid_type") >>
  ELSE IF body[f] = "" THEN << ZodIssue(f, "too_small") >>
  ELSE <<>>

\* a schema that takes any number as magnitude
MagnitudeIssues_any(body) ==
  IF "magnitude" \notin DOMAIN body \/ body.magnitude.type # "number"
  THEN << ZodIssue("magnitude", "invalid_type") >>
  ELSE <<>>

\* z.number().min(1).max(5)
MagnitudeIssues(body) ==
  IF "magnitude" \notin DOMAIN body \/ body.magnitude.type # "number"
  THEN << ZodIssue("magnitude", "invalid_type") >>
  ELSE IF body.magnitude.n < 1 THEN << ZodIssue("magnitude", "too_small") >>
  ELSE IF body.magnitude.n > 5 THEN << ZodIssue("magnitude", "too_big") >>
  ELSE <<>>

createSkillSchema(body) ==
  LET idIssues ==
        IF "id" \notin DOMAIN body THEN << ZodIssue("id", "invalid_type") >>
        ELSE (IF body.id = <<>> THEN << ZodIssue("id", "too_small") >> ELSE <<>>)
             \o (IF body.id = <<>> \/ \E i \in 1..Len(body.id) : body.id[i] \notin LowerAlnumDash
                 THEN << ZodIssue("id", "ID must be lowercase alphanumeric with dashes") >>
                 ELSE <<>>)
      urlIssues ==
        IF "url" \in DOMAIN body /\ body.url # "" /\ ~ParsesAsUrl(body.url)
        THEN << ZodIssue("url", "invalid_string") >> ELSE <<>>
  IN [data |-> [id |-> Member(body, "id", <<>>),
                name |-> Member(body, "name", Null),
                category |-> Member(body, "category", Null),
                magnitude |-> IF "magnitude" \in DOMAIN body /\ body.magnitude.type = "number"
                              THEN body.magnitude.n ELSE 0,
                description |-> Member(body, "description", Null),
                icon |-> Member(body, "icon", Null),
                color |-> Member(body, "color", Null),
                url |-> Member(body, "url", Null),
                tags |-> Member(body, "tags", <<>>),
                firstUsed |-> Member(body, "firstUsed", Null),
                lastUsed |-> Member(body, "lastUsed", Null)],
      issues |-> idIssues \o RequiredText(body, "name") \o RequiredText(body, "category")
                 \o MagnitudeIssues(body) \o RequiredText(body, "description")
                 \o urlIssues]

\* JS: v || null of an optional text
OrNullText(v) == IF v \in {"", Null} THEN Null ELSE v

\* INSERT INTO skills: the constraint that fails, or "ok"
insertSkill(row) ==
  IF \E i \in 1..Len(skills) : skills[i].id = row.id THEN "UNIQUE constraint failed: skills.id"
  ELSE IF ~(row.magnitude >= 1 /\ row.magnitude <= 5) THEN "CHECK constraint failed: skills"
  ELSE "ok"

PostSkill(request) ==
  LET result == validateBody(request.json_ok, createSkillSchema(request.body))
      body == result.data
      row == [id |-> body.id, name |-> body.name, category |-> body.category,
              magnitude |-> body.magnitude, description |-> body.description,
              icon |-> OrNullText(body.icon), color |-> OrNullText(body.color),
              url |-> OrNullText(body.url), tags |-> JsonStringify(body.tags),
              firstUsed |-> OrNullText(body.firstUsed),
              lastUsed |-> OrNullText(body.lastUsed)]
      inserted == IF result.success THEN insertSkill(row) ELSE "not run"
  IN /\ Len(skills) < MaxSkills
     /\ Answer("POST /api/cv/skills", request,
               IF ~result.success THEN Threw(result.error)
               ELSE IF inserted = "UNIQUE constraint failed: skills.id"
               THEN Threw(ConflictError(<<"Skill with this ID already exists">>))
               ELSE IF inserted # "ok" THEN Threw(PlainError("SqliteError", <<inserted>>))
               ELSE Returned(JsonResponse(Assign(row, "tags", JsonParse(row.tags)), 200)))
     /\ skills' = IF inserted = "ok" THEN Append(skills, row) ELSE skills
     /\ UNCHANGED <<conversations, atropos_corrections, errVars, notWebVars>>

(* validateParams(commitHashSchema, { commitHash }).  A commit hash is a
   sequence of characters. *)

commitHashSchema_any(params) ==
  [data |-> [commitHash |-> Member(params, "commitHash", <<>>)],
   issues |-> IF "commitHash" \notin DOMAIN params
              THEN << ZodIssue("commitHash", "invalid_type") >>
              ELSE <<>>]

commitHashSchema(params) ==
  [data |-> [commitHash |-> Member(params, "commitHash", <<>>)],
   issues |-> IF "commitHash" \notin DOMAIN params
              THEN << ZodIssue("commitHash", "invalid_type") >>
              ELSE IF Len(params.commitHash) < 7
              THEN << ZodIssue("commitHash", "Commit hash must be at least 7 characters") >>
              ELSE <<>>]

validateParams(parsed) ==
  IF parsed.issues = <<>> THEN Valid(parsed.data)
  ELSE Invalid(ValidationError(<<"Invalid route parameters">>,
                               << formatZodError(parsed.issues) >>))

\* a route that validates its commitHash segment and answers with it
ValidateCommitHash(params) ==
  LET result == validateParams(commitHashSchema(params))
  IN /\ Answer("validateParams commitHash", params,
               IF ~result.success THEN Threw(result.error)
               ELSE Returned(JsonResponse(result.data, 200)))
     /\ UNCHANGED <<skills, conversations, atropos_corrections, errVars, notWebVars>>

(* GET /api/project-summaries.  A date or timestamp is a positive number;
   NullDate stands for SQL NULL and sorts last. *)

NullDate == 0

\* a listing that takes its repositories from project_summaries only
all_repos_summarized ==
  { project_summaries[i].repository : i \in 1..Len(project_summaries) }

\* SELECT repository FROM project_summaries UNION SELECT DISTINCT repository
\* FROM journal_entries
all_repos ==
  { project_summaries[i].repository : i \in 1..Len(project_summaries) }
  \cup { journal_entries[i].repository : i \in 1..Len(journal_entries) }

EntriesOf(repository) ==
  SelectSeq(journal_entries, LAMBDA je : je.repository = repository)

\* SELECT MAX(col) FROM journal_entries je WHERE je.repository = ?
MaxOf(repository, col) ==
  LET je == EntriesOf(repository)
  IN IF je = <<>> THEN NullDate
     ELSE CHOOSE m \in { je[i][col] : i \in 1..Len(je) } :
            \A i \in 1..Len(je) : je[i][col] <= m

NoSummaryYet == "No summary yet. Click Analyze to generate one from journal entries."

\* the rows of all_repos ar LEFT JOIN project_summaries ps for one repository
SummaryRowsOf(repository) ==
  LET ps == SelectSeq(project_summaries, LAMBDA s : s.repository = repository)
      counts == [entry_count |-> Len(EntriesOf(repository)),
                 last_entry_date |-> MaxOf(repository, "date")]
  IN IF ps = <<>>
     THEN << [id |-> -1, repository |-> repository, git_url |-> Null,
              summary |-> NoSummaryYet, purpose |-> Null, architecture |-> Null,
              key_decisions |-> Null, technologies |-> Null, status |-> Null,
              updated_at |-> MaxOf(repository, "created_at")] @@ counts >>
     ELSE [i \in 1..Len(ps) |->
             [id |-> ps[i].id, repository |-> repository, git_url |-> ps[i].git_url,
              summary |-> IF ps[i].summary = Null THEN NoSummaryYet ELSE ps[i].summary,
              purpose |-> ps[i].purpose, architecture |-> ps[i].architecture,
              key_decisions |-> ps[i].key_decisions,
              technologies |-> ps[i].technologies, status |-> ps[i].status,
              updated_at |-> IF ps[i].updated_at = NullDate
                             THEN MaxOf(repository, "created_at")
                             ELSE ps[i].updated_at] @@ counts]

\* ORDER BY last entry date DESC NULLS LAST, ps.updated_at DESC: row a may
\* stand before row b
SummaryBefore(a, b) ==
  \/ a.last_entry_date > b.last_entry_date
  \/ (a.last_entry_date = b.last_entry_date /\ a.ps_updated_at >= b.ps_updated_at)

RECURSIVE JoinRows(_)
JoinRows(repos) ==
  IF repos = {} THEN <<>>
  ELSE LET r == CHOOSE r \in repos : TRUE
       IN SummaryRowsOf(r) \o JoinRows(repos \ {r})

\* ps.updated_at of a joined row, the second sort key
PsUpdatedAt(row) ==
  IF row.id = -1 THEN NullDate
  ELSE LET ps == SelectSeq(project_summaries, LAMBDA s : s.id = row.id)
       IN ps[1].updated_at

GetProjectSummaries ==
  LET rows == JoinRows(all_repos)
      n == Len(rows)
  IN \E order \in { p \in [1..n -> 1..n] : \A i, j \in 1..n : i # j => p[i] # p[j] } :
       /\ \A i, j \in 1..n :
            i < j => SummaryBefore(Assign(rows[order[i]], "ps_updated_at", PsUpdatedAt(rows[order[i]])),
                                   Assign(rows[order[j]], "ps_updated_at", PsUpdatedAt(rows[order[j]])))
       /\ Answer("GET /api/project-summaries", EmptyObject,
                 Returned(JsonResponse(
                   [summaries |-> [i \in 1..n |-> rows[order[i]]], total |-> n], 200)))
       /\ UNCHANGED <<skills, conversations, atropos_corrections, errVars, notWebVars>>

(* Requests and seeds of the web routes *)

DigitChar(d) == CHOOSE c \in {"0", "1", "2", "3", "4", "5", "6", "7", "8", "9"} : DigitVal(c) = d

\* JS String(n) of an integer
RECURSIVE Digits(_)
Digits(n) == IF n < 10 THEN << DigitChar(n) >> ELSE Digits(n \div 10) \o << DigitChar(n % 10) >>

NumeralOf(n) == IF n < 0 THEN <<"-">> \o Digits(0 - n) ELSE Digits(n)

\* the records with at most the member f, its value from values
OptionalMember(f, values) == { EmptyObject } \cup { (f :> v) : v \in values }

LimitNumbers == {0, 1, 100, 101}
OffsetNumbers == {-1, 0, 1}

EntriesQueries ==
  { l @@ o @@ r @@ b :
      l \in OptionalMember("limit", { NumeralOf(n) : n \in LimitNumbers } \cup { <<>> }),
      o \in OptionalMember("offset", { NumeralOf(n) : n \in OffsetNumbers } \cup { <<"1", "x">> }),
      r \in OptionalMember("repository", {"r1", ""}),
      b \in OptionalMember("branch", {"dev"}) }

HistoryQueries ==
  { l @@ o @@ s @@ h :
      l \in OptionalMember("limit", { <<>>, <<"0">>, <<"1">>, <<"1", "0", "1">> }),
      o \in OptionalMember("offset", { <<"-", "1">> }),
      s \in OptionalMember("source", { <<"c", "h">> }),
      h \in OptionalMember("hasChanges", {"true", "maybe"}) }

ConversationRequests ==
  { [contentType |-> c, json_ok |-> j.json_ok, issues |-> j.issues,
     body |-> [title |-> "t", messages |-> <<"hello">>]] :
      c \in {"application/json", "text/plain"},
      j \in { [json_ok |-> FALSE, issues |-> <<>>],
              [json_ok |-> TRUE, issues |-> << ZodIssue("title", "invalid_type") >>],
              [json_ok |-> TRUE, issues |-> <<>>] } }

Number(n) == [type |-> "number", n |-> n]

SkillBody(id, magnitude) ==
  [id |-> id, name |-> "Skill", category |-> "Frameworks",
   magnitude |-> magnitude, description |-> "d"]

SkillRequests ==
  { [json_ok |-> FALSE, body |-> EmptyObject] }
  \cup { [json_ok |-> TRUE, body |-> b] :
           b \in { SkillBody(<<"a", "-", "1">>, Number(m)) : m \in {0, 1, 3, 5, 6} }
                 \cup { SkillBody(<<"a", "-", "1">>, [type |-> "string", n |-> 3]),
                        DeleteField(SkillBody(<<"b">>, Number(2)), "magnitude"),
                        DeleteField(SkillBody(<<"b">>, Number(2)), "name"),
                        SkillBody(<<"A", " ", "b">>, Number(4)),
                        SkillBody(<<>>, Number(4)) }
                 \cup { Assign(SkillBody(<<"b">>, Number(5)), "url", u) :
                          u \in {"https://example.com", "not-a-url", ""} }
                 \cup { Assign(SkillBody(<<"b">>, Number(2)), "tags", <<"ui">>) } }

CommitHashParams ==
  OptionalMember("commitHash", { [i \in 1..n |-> "a"] : n \in {0, 6, 7, 8} })

WebEntry(id, hash, repository, branch, date, created_at) ==
  Row(id, hash, repository, branch, date)
  @@ [created_at |-> created_at, code_author |-> Null, team_members |-> Null]

WebSummary(id, repository, updated_at) ==
  Summary(repository) @@ [id |-> id, updated_at |-> updated_at]

Correction(id, had_changes, source_context, created_at) ==
  [id |-> id, user_id |-> "default", had_changes |-> had_changes,
   source_context |-> source_context, created_at |-> created_at]

WebSeeds ==
  { [entries |-> <<>>, summaries |-> <<>>, corrections |-> <<>>, env |-> "production"],
    [entries |-> << WebEntry(1, SeedHash(1), "r1", "main", 1, 1),
                    WebEntry(2, SeedHash(2), "r1", "dev", 2, 3),
                    WebEntry(3, SeedHash(3), "r2", "main", 2, 2) >>,
     summaries |-> << WebSummary(1, "r1", 5) >>,
     corrections |-> << Correction(1, 1, <<"c", "h", "a", "t">>, 1),
                        Correction(2, 0, <<>>, 2) >>,
     env |-> "development"],
    [entries |-> << WebEntry(1, SeedHash(1), "r2", "main", 1, 1) >>,
     summaries |-> << WebSummary(1, "r1", 1), WebSummary(2, "r3", 2) >>,
     corrections |-> << Correction(1, 0, <<"c", "v">>, 1) >>,
     env |-> "production"] }

WebIdle ==
  /\ skills = <<>>
  /\ conversations = <<>>
  /\ atropos_corrections = <<>>
  /\ webResp = NoWebResponse

\* the routes that only read
NextWeb ==
  \/ \E query \in EntriesQueries : GetEntries(query)
  \/ \E params \in CommitHashParams : ValidateCommitHash(params)
  \/ GetProjectSummaries

\* the routes that write, with the history route
NextWebWrite ==
  \/ \E query \in HistoryQueries : GetAtroposHistory(query)
  \/ \E request \in ConversationRequests : PostConversation(request)
  \/ \E request \in SkillRequests : PostSkill(request)

\* C13: paginationSchema gives limit 50 and offset 0 when they are absent,
\* coerces numeric strings, and rejects a limit below 1 or above 100 and a
\* negative offset; GET /api/entries, which uses it, runs its query with
\* 1 <= limit <= 100 and offset >= 0.
C13_PaginationRange ==
  webResp.route = "GET /api/entries" =>
    LET q == webResp.request
        r == webResp.response
    IN /\ r.status \in {200, 400}
       /\ r.status = 200 =>
            /\ r.body.limit >= 1 /\ r.body.limit <= 100 /\ r.body.offset >= 0
            /\ Len(r.body.entries) <= r.body.limit
            /\ "limit" \notin DOMAIN q => r.body.limit = 50
            /\ "offset" \notin DOMAIN q => r.body.offset = 0
       /\ \A n \in LimitNumbers :
            ("limit" \in DOMAIN q /\ q.limit = NumeralOf(n)) =>
               IF n >= 1 /\ n <= 100 THEN r.status = 200 => r.body.limit = n
               ELSE r.status = 400 /\ r.body.code = "VALIDATION_ERROR"
       /\ \A n \in OffsetNumbers :
            ("offset" \in DOMAIN q /\ q.offset = NumeralOf(n)) =>
               IF n >= 0 THEN r.status = 200 => r.body.offset = n
               ELSE r.status = 400 /\ r.body.code = "VALIDATION_ERROR"

\* limit=1&offset=1 was coerced and used: one of three entries, more to come
C13_Witness ==
  /\ webResp.route = "GET /api/entries"
  /\ webResp.request = [limit |-> <<"1">>, offset |-> <<"1">>]
  /\ webResp.response.status = 200
  /\ webResp.response.body.limit = 1
  /\ webResp.response.body.offset = 1
  /\ Len(webResp.response.body.entries) = 1
  /\ webResp.response.body.has_more

\* limit=101 was rejected
C13_WitnessRejected ==
  /\ webResp.route = "GET /api/entries"
  /\ webResp.request = [limit |-> <<"1", "0", "1">>]
  /\ webResp.response.status = 400

\* the rows of journal_entries that a query asks for
Requested(q) ==
  { i \in 1..Len(journal_entries) :
      /\ "repository" \in DOMAIN q => journal_entries[i].repository = q.repository
      /\ "branch" \in DOMAIN q => journal_entries[i].branch = q.branch }

\* C14: GET /api/entries takes repository and branch as optional filters on
\* top of pagination: every entry returned has the repository and branch
\* asked for, an absent parameter filters nothing, and the entries come
\* newest-created first.
C14_OptionalFilters ==
  (webResp.route = "GET /api/entries" /\ webResp.response.status = 200) =>
    LET q == webResp.request
        body == webResp.response.body
        es == body.entries
        ids == { es[i].id : i \in 1..Len(es) }
        later == Cardinality(Requested(q)) - body.offset
    IN /\ \A i \in 1..Len(es) :
            /\ "repository" \in DOMAIN q => es[i].repository = q.repository
            /\ "branch" \in DOMAIN q => es[i].branch = q.branch
       /\ body.total = Cardinality(Requested(q))
       /\ ids \subseteq { journal_entries[i].id : i \in Requested(q) }
       /\ Len(es) = Cardinality(ids)
       /\ Len(es) = IF later <= 0 THEN 0 ELSE Min(body.limit, later)
       /\ \A i, j \in 1..Len(es) : i < j => es[i].created_at >= es[j].created_at
       \* no row left out is newer than a row returned, before the offset apart
       /\ body.offset = 0 =>
            \A k \in Requested(q) :
              journal_entries[k].id \notin ids =>
                \A i \in 1..Len(es) : es[i].created_at >= journal_entries[k].created_at

\* repository=r1 on a table that also holds an entry of r2: both entries of
\* r1 came back, the newer first
C14_Witness ==
  /\ webResp.route = "GET /api/entries"
  /\ webResp.request = [repository |-> "r1"]
  /\ webResp.response.status = 200
  /\ Len(journal_entries) = 3
  /\ Len(webResp.response.body.entries) = 2
  /\ webResp.response.body.entries[1].created_at > webResp.response.body.entries[2].created_at
  /\ webResp.response.body.entries[1].branch # webResp.response.body.entries[2].branch

\* repository=r1&branch=dev: one entry
C14_WitnessBoth ==
  /\ webResp.route = "GET /api/entries"
  /\ webResp.request = [repository |-> "r1", branch |-> "dev"]
  /\ webResp.response.status = 200
  /\ Len(webResp.response.body.entries) = 1

\* C15: createSkillSchema accepts a skill only if its id is non-empty and made
\* of lowercase letters, digits and dashes, its magnitude is 1 to 5, and its
\* url is a valid URL, the empty string or absent; tags default to the empty
\* list; so every skill stored by POST /api/cv/skills has a magnitude in 1..5.
C15_SkillsValidated ==
  /\ \A i \in 1..Len(skills) : skills[i].magnitude \in 1..5
  /\ webResp.route = "POST /api/cv/skills" =>
       LET request == webResp.request
           b == request.body
           r == webResp.response
           idOk == /\ "id" \in DOMAIN b /\ b.id # <<>>
                   /\ \A i \in 1..Len(b.id) : b.id[i] \in LowerAlnumDash
           magnitudeOk == /\ "magnitude" \in DOMAIN b /\ b.magnitude.type = "number"
                          /\ b.magnitude.n >= 1 /\ b.magnitude.n <= 5
           urlOk == "url" \notin DOMAIN b \/ b.url = "" \/ ParsesAsUrl(b.url)
       IN /\ r.status = 200 =>
               /\ request.json_ok /\ idOk /\ magnitudeOk /\ urlOk
               /\ r.body.tags = Member(b, "tags", <<>>)
               /\ skills # <<>>
               /\ skills[Len(skills)].id = b.id
               /\ skills[Len(skills)].magnitude = b.magnitude.n
               /\ skills[Len(skills)].tags = JsonStringify(Member(b, "tags", <<>>))
          /\ (request.json_ok /\ ~(idOk /\ magnitudeOk /\ urlOk)) =>
               /\ r.status = 400
               /\ r.body.code = "VALIDATION_ERROR"
               /\ skills = webResp.before[1]

\* a skill of magnitude 5 sent without tags was stored with the empty list
C15_Witness ==
  /\ webResp.route = "POST /api/cv/skills"
  /\ webResp.response.status = 200
  /\ "tags" \notin DOMAIN webResp.request.body
  /\ webResp.request.body.magnitude = Number(5)
  /\ webResp.response.body.tags = <<>>
  /\ Len(skills) = 2
  /\ skills[2].magnitude = 5

\* a skill of magnitude 6 was refused and not stored
C15_WitnessRefused ==
  /\ webResp.route = "POST /api/cv/skills"
  /\ webResp.request.json_ok
  /\ "magnitude" \in DOMAIN webResp.request.body
  /\ webResp.request.body.magnitude = Number(6)
  /\ webResp.response.status = 400
  /\ skills = webResp.before[1]

\* C16: commitHashSchema accepts exactly the strings of at least 7 characters
\* and returns them unchanged; a shorter one is rejected with the message
\* 'Commit hash must be at least 7 characters'.
C16_CommitHashLength ==
  webResp.route = "validateParams commitHash" =>
    LET params == webResp.request
        r == webResp.response
    IN /\ r.status \in {200, 400}
       /\ r.status = 200 <=>
            ("commitHash" \in DOMAIN params /\ Len(params.commitHash) >= 7)
       /\ r.status = 200 => r.body = [commitHash |-> params.commitHash]
       /\ ("commitHash" \in DOMAIN params /\ Len(params.commitHash) < 7) =>
            /\ r.body.code = "VALIDATION_ERROR"
            /\ r.body.details[1].commitHash =
                 << "Commit hash must be at least 7 characters" >>

\* a hash of exactly 7 characters came back unchanged
C16_Witness ==
  /\ webResp.route = "validateParams commitHash"
  /\ "commitHash" \in DOMAIN webResp.request
  /\ Len(webResp.request.commitHash) = 7
  /\ webResp.response.status = 200
  /\ webResp.response.body.commitHash = webResp.request.commitHash

\* a hash of 6 characters was rejected
C16_WitnessShort ==
  /\ webResp.route = "validateParams commitHash"
  /\ "commitHash" \in DOMAIN webResp.request
  /\ Len(webResp.request.commitHash) = 6
  /\ webResp.response.status = 400

FailsValidation(r) ==
  CASE r.route = "GET /api/entries" -> journalQuerySchema(r.request).issues # <<>>
    [] r.route = "GET /api/atropos/history" ->
         historyQuerySchema(historyInput(r.request)).issues # <<>>
    [] r.route = "POST /api/conversations" ->
         ~r.request.json_ok \/ r.request.issues # <<>>
    [] r.route = "POST /api/cv/skills" ->
         ~r.request.json_ok \/ createSkillSchema(r.request.body).issues # <<>>
    [] OTHER -> FALSE

\* C11: on every wrapped route a request whose body or query fails
\* validation (a body that is no JSON included) is answered 400 with code
\* VALIDATION_ERROR, and nothing is written to the database.
C11_ValidationAnswered ==
  FailsValidation(webResp) =>
    /\ webResp.response.status = 400
    /\ webResp.response.body.code = "VALIDATION_ERROR"
    /\ <<skills, conversations>> = webResp.before

\* the part of C11 that the code keeps: a request that fails validation
\* writes nothing, whatever it is answered
C11_NothingWritten ==
  FailsValidation(webResp) => <<skills, conversations>> = webResp.before

-----------------------------------------------------------------------------
(* The Atropos normalisation migration (scripts/migrate-atropos.ts).
   atropos holds the legacy table atropos_memory (exists: whether the table
   is there), the normalised tables with their AUTOINCREMENT counters (seq),
   the clock that CURRENT_TIMESTAMP reads, the number of runs, and the
   normalised tables as the first run left them.  A JSON column of the
   legacy table is [ok, value]: ok is whether JSON.parse takes the text. *)

MaxRuns == 2     \* runs of the migration script
MaxClock == 2    \* ticks of the clock
MaxLegacy == 2   \* rows of atropos_memory

Json(value) == [ok |-> TRUE, value |-> value]
BadJson == [ok |-> FALSE, value |-> <<>>]

\* a table with its AUTOINCREMENT counter
EmptyTable == [rows |-> <<>>, seq |-> 0]

\* INSERT OR IGNORE INTO atropos_memories: content NOT NULL, UNIQUE (user_id, content)
RECURSIVE InsertMemories(_, _, _, _)
InsertMemories(table, row, memories, now) ==
  IF memories = <<>> THEN table
  ELSE LET memory == Head(memories)
           ignored ==
             \/ memory.content = Null
             \/ \E i \in 1..Len(table.rows) :
                  /\ table.rows[i].user_id = row.user_id
                  /\ table.rows[i].content = memory.content
           inserted ==
             [id |-> table.seq + 1, user_id |-> row.user_id,
              content |-> memory.content, tags |-> JsonStringify(memory.tags),
              frequency |-> 1,
              created_at |-> IF memory.createdAt # NullDate THEN memory.createdAt
                             ELSE row.created_at,
              updated_at |-> now]
       IN InsertMemories(IF ignored THEN table
                         ELSE [rows |-> Append(table.rows, inserted), seq |-> table.seq + 1],
                         row, Tail(memories), now)

\* INSERT OR IGNORE INTO atropos_dictionary: UNIQUE (user_id, term)
RECURSIVE InsertDictTerms(_, _, _, _)
InsertDictTerms(table, row, dictionary, now) ==
  IF dictionary = <<>> THEN table
  ELSE LET term == Head(dictionary)
           ignored ==
             \E i \in 1..Len(table.rows) :
               table.rows[i].user_id = row.user_id /\ table.rows[i].term = term
           inserted ==
             [id |-> table.seq + 1, user_id |-> row.user_id, term |-> term,
              created_at |-> now]
       IN InsertDictTerms(IF ignored THEN table
                          ELSE [rows |-> Append(table.rows, inserted), seq |-> table.seq + 1],
                          row, Tail(dictionary), now)

\* INSERT OR REPLACE INTO atropos_stats: UNIQUE (user_id); the row of the
\* same user is deleted and a new row takes the next id
insertStats(table, row, now) ==
  [rows |-> Append(SelectSeq(table.rows, LAMBDA s : s.user_id # row.user_id),
                   [id |-> table.seq + 1, user_id |-> row.user_id,
                    total_checks |-> row.total_checks,
                    total_corrections |-> row.total_corrections,
                    total_characters_corrected |-> 0,
                    created_at |-> now, updated_at |-> now]),
   seq |-> table.seq + 1]

\* for (const row of legacyRows) { ... }
RECURSIVE MigrateRows(_, _, _)
MigrateRows(tables, legacyRows, now) ==
  IF legacyRows = <<>> THEN tables
  ELSE LET row == Head(legacyRows)
       IN MigrateRows(
            [atropos_memories |->
               IF row.memories.ok
               THEN InsertMemories(tables.atropos_memories, row, row.memories.value, now)
               ELSE tables.atropos_memories,
             atropos_dictionary |->
               IF row.custom_dictionary.ok
               THEN InsertDictTerms(tables.atropos_dictionary, row,
                                    row.custom_dictionary.value, now)
               ELSE tables.atropos_dictionary,
             atropos_stats |-> insertStats(tables.atropos_stats, row, now)],
            Tail(legacyRows), now)

Normalised(a) ==
  [atropos_memories |-> a.atropos_memories,
   atropos_dictionary |-> a.atropos_dictionary,
   atropos_stats |-> a.atropos_stats]

\* one run of the script
migrate ==
  LET after == IF atropos.exists
               THEN MigrateRows(Normalised(atropos), atropos.atropos_memory, atropos.now)
               ELSE Normalised(atropos)
  IN /\ atropos.runs < MaxRuns
     /\ atropos' = [atropos EXCEPT
                      !.atropos_memories = after.atropos_memories,
                      !.atropos_dictionary = after.atropos_dictionary,
                      !.atropos_stats = after.atropos_stats,
                      !.runs = @ + 1,
                      !.once = IF atropos.runs = 0 THEN after ELSE @]
     /\ UNCHANGED notMigrationVars

\* time passes
Tick ==
  /\ atropos.now < MaxClock + 1
  /\ atropos' = [atropos EXCEPT !.now = @ + 1]
  /\ UNCHANGED notMigrationVars

Memory(content, tags, createdAt) ==
  [content |-> content, tags |-> tags, createdAt |-> createdAt]

LegacyRow(id, user_id, custom_dictionary, memories, total_checks) ==
  [id |-> id, user_id |-> user_id, custom_dictionary |-> custom_dictionary,
   memories |-> memories, total_checks |-> total_checks, total_corrections |-> 1,
   created_at |-> 1]

LegacyShapes ==
  { [custom_dictionary |-> Json(<<"t1", "t2", "t1">>),
     memories |-> Json(<< Memory("m1", <<"tag">>, 1), Memory("m1", <<>>, NullDate),
                          Memory(Null, <<>>, NullDate) >>)],
    [custom_dictionary |-> Json(<<>>), memories |-> BadJson],
    [custom_dictionary |-> BadJson, memories |-> Json(<< Memory("m2", <<>>, NullDate) >>)] }

Users == <<"default", "u2", "u3">>

\* the legacy tables of n rows: one row per user
LegacyTables(n) ==
  { [i \in 1..n |-> LegacyRow(i, Users[i], shape[i].custom_dictionary,
                              shape[i].memories, i + 2)] :
      shape \in [1..n -> LegacyShapes] }

Atropos(exists, legacy) ==
  [exists |-> exists, atropos_memory |-> legacy, legacy0 |-> legacy,
   atropos_memories |-> EmptyTable, atropos_dictionary |-> EmptyTable,
   atropos_stats |-> EmptyTable, now |-> 1, runs |-> 0,
   once |-> [atropos_memories |-> EmptyTable, atropos_dictionary |-> EmptyTable,
             atropos_stats |-> EmptyTable]]

AtroposIdle == atropos = Atropos(FALSE, <<>>)

NextMigration == migrate \/ Tick

\* at most one row per key in the normalised tables
OnePerKey(a) ==
  /\ \A i, j \in 1..Len(a.atropos_memories.rows) :
       (/\ a.atropos_memories.rows[i].user_id = a.atropos_memories.rows[j].user_id
        /\ a.atropos_memories.rows[i].content = a.atropos_memories.rows[j].content) => i = j
  /\ \A i, j \in 1..Len(a.atropos_dictionary.rows) :
       (/\ a.atropos_dictionary.rows[i].user_id = a.atropos_dictionary.rows[j].user_id
        /\ a.atropos_dictionary.rows[i].term = a.atropos_dictionary.rows[j].term) => i = j
  /\ \A i, j \in 1..Len(a.atropos_stats.rows) :
       a.atropos_stats.rows[i].user_id = a.atropos_stats.rows[j].user_id => i = j

\* C18: the migration keeps the legacy table atropos_memory as it was and is
\* idempotent: a second run leaves atropos_memories, atropos_dictionary and
\* atropos_stats as the first run left them, with at most one memory per
\* (user_id, content), one term per (user_id, term) and one stats row per user.
C18_Idempotent ==
  /\ atropos.atropos_memory = atropos.legacy0
  /\ OnePerKey(atropos)
  /\ atropos.runs >= 2 =>
       /\ atropos.atropos_memories.rows = atropos.once.atropos_memories.rows
       /\ atropos.atropos_dictionary.rows = atropos.once.atropos_dictionary.rows
       /\ atropos.atropos_stats.rows = atropos.once.atropos_stats.rows

\* the columns of a stats row that the legacy table determines
StatsOf(table) ==
  { [user_id |-> table.rows[i].user_id, total_checks |-> table.rows[i].total_checks,
     total_corrections |-> table.rows[i].total_corrections] : i \in 1..Len(table.rows) }

\* what the code keeps of C18: the legacy table, the keys, the memories and
\* the terms; of the stats, the user and the two totals
C18_KeptByRerun ==
  /\ atropos.atropos_memory = atropos.legacy0
  /\ OnePerKey(atropos)
  /\ atropos.runs >= 2 =>
       /\ atropos.atropos_memories.rows = atropos.once.atropos_memories.rows
       /\ atropos.atropos_dictionary.rows = atropos.once.atropos_dictionary.rows
       /\ StatsOf(atropos.atropos_stats) = StatsOf(atropos.once.atropos_stats)

-----------------------------------------------------------------------------
(* normalizeReport and process.env.ANTHROPIC_API_KEY.  Unset is the
   variable not being in the environment (undefined).  A call saves the
   key, sets its own, awaits generateText, and restores what it saved. *)

MaxCalls == 2    \* callers of normalizeReport

Callers == 1..MaxCalls

Unset == "UNSET"

EnvKeys == { Unset, "sk-env", "sk-old" }
ConfigKeys == { "sk-config", "sk-env" }

IdleCall == [pc |-> "idle", originalKey |-> Unset, outcome |-> "none"]

\* const originalKey = process.env.ANTHROPIC_API_KEY;
\* process.env.ANTHROPIC_API_KEY = config.aiApiKey; await generateText(...)
NormalizeStart(c, aiApiKey) ==
  /\ normalizing[c].pc = "idle"
  /\ normalizing' = [normalizing EXCEPT
                       ![c] = [pc |-> "awaiting", originalKey |-> apiKey, outcome |-> "none"]]
  /\ apiKey' = aiApiKey
  /\ keyBefore' = IF \A d \in Callers : normalizing[d].pc = "idle" THEN apiKey
                  ELSE keyBefore
  /\ UNCHANGED notKeyVars

\* if (originalKey !== undefined) process.env.ANTHROPIC_API_KEY = originalKey;
\* else delete process.env.ANTHROPIC_API_KEY
Restored(originalKey) == IF originalKey # Unset THEN originalKey ELSE Unset

\* generateText resolved: restore, return the output
NormalizeReturn(c) ==
  /\ normalizing[c].pc = "awaiting"
  /\ apiKey' = Restored(normalizing[c].originalKey)
  /\ normalizing' = [normalizing EXCEPT ![c] = [IdleCall EXCEPT !.outcome = "returned"]]
  /\ UNCHANGED <<keyBefore, notKeyVars>>

\* generateText rejected: restore, throw 'Entry 0 normalization failed'
NormalizeThrow(c) ==
  /\ normalizing[c].pc = "awaiting"
  /\ apiKey' = Restored(normalizing[c].originalKey)
  /\ normalizing' = [normalizing EXCEPT ![c] = [IdleCall EXCEPT !.outcome = "threw"]]
  /\ UNCHANGED <<keyBefore, notKeyVars>>

KeyIdle ==
  /\ apiKey = Unset
  /\ keyBefore = Unset
  /\ normalizing = [c \in Callers |-> IdleCall]

NextKey ==
  \E c \in Callers :
    \/ \E aiApiKey \in ConfigKeys : NormalizeStart(c, aiApiKey)
    \/ NormalizeReturn(c)
    \/ NormalizeThrow(c)

\* C19: normalizeReport restores the API key on success and on error: once
\* every call in flight has completed, ANTHROPIC_API_KEY is what it was
\* before the first of them started, the same value or unset.
C19_KeyRestored ==
  (\A c \in Callers : normalizing[c].pc = "idle") => apiKey = keyBefore

\* what the code keeps of C19: a call restores the key it found
C19_RestoresWhatItSaved ==
  [][\A c \in Callers :
       (normalizing[c].pc = "awaiting" /\ normalizing'[c].pc = "idle") =>
          apiKey' = normalizing[c].originalKey]_vars

-----------------------------------------------------------------------------
(* PATCH /api/entries/[commitHash].  A member of the JSON body is a JSON
   value: Text(s), JsonNull or Number(n); a column holds a string or Null. *)

Text(s) == [type |-> "string", s |-> s]
JsonNull == [type |-> "null"]

TextColumns == <<"why", "what_changed", "decisions", "technologies">>
UpdateColumns == TextColumns \o <<"kronus_wisdom">>

ColumnsIn(columns) == { columns[i] : i \in 1..Len(columns) }

\* z.string().optional(), and z.string().nullable().optional() for
\* kronus_wisdom; members the schema does not name are stripped
updateJournalEntrySchema(body) ==
  LET given == SelectSeq(UpdateColumns, LAMBDA f : f \in DOMAIN body)
      accepts(f) == \/ body[f].type = "string"
                    \/ f = "kronus_wisdom" /\ body[f].type = "null"
      bad == SelectSeq(given, LAMBDA f : ~accepts(f))
  IN [data |-> [f \in ColumnsIn(given) |->
                  IF body[f].type = "string" THEN body[f].s ELSE Null],
      issues |-> [i \in 1..Len(bad) |-> ZodIssue(bad[i], "invalid_type")]]

\* a handler that sets every column it may update
SetClause_all(updates) == UpdateColumns

\* fields: the columns whose member of updates is not undefined
SetClause(updates) == SelectSeq(UpdateColumns, LAMBDA f : f \in DOMAIN updates)

\* UPDATE journal_entries SET fields WHERE commit_hash = ?  (updates.f ?? null)
updateEntry(row, fields, updates) ==
  [c \in DOMAIN row |->
     IF c \in ColumnsIn(fields) THEN Member(updates, c, Null) ELSE row[c]]

\* what triggerBackup() does inside its try block
BackupOutcomes == { "done", "threw" }

\* a handler that lets the backup's error out
AfterBackup_rethrow(backup, response) ==
  IF backup = "threw" THEN Threw(PlainError("Error", <<"backup failed">>))
  ELSE Returned(response)

\* try { triggerBackup() } catch (error) { console.error(...) }: the error
\* is logged and the handler goes on to return the updated entry
AfterBackup(backup, response) ==
  IF backup = "threw" THEN Returned(response)
  ELSE Returned(response)

PatchRoute == "PATCH /api/entries/[commitHash]"

PatchEntry(request) ==
  LET result == validateBody(request.json_ok, updateJournalEntrySchema(request.body))
      updates == result.data
      fields == IF result.success THEN SetClause(updates) ELSE <<>>
      runs == result.success /\ fields # <<>>
      matched == { i \in 1..Len(journal_entries) :
                     journal_entries[i].commit_hash = request.commitHash }
      updated == [i \in 1..Len(journal_entries) |->
                    IF i \in matched THEN updateEntry(journal_entries[i], fields, updates)
                    ELSE journal_entries[i]]
      outcome ==
        IF ~result.success THEN Threw(result.error)
        ELSE IF fields = <<>> THEN Threw(ValidationError(<<"No fields to update">>, <<>>))
        ELSE IF matched = {} THEN Threw(NotFoundError("Entry not found", <<>>))
        ELSE AfterBackup(request.backup,
                         JsonResponse(updated[CHOOSE i \in matched : TRUE], 200))
  IN /\ journal_entries' = IF runs THEN updated ELSE journal_entries
     /\ webResp' = [route |-> PatchRoute, request |-> request,
                    before |-> journal_entries,
                    response |-> withErrorHandler(outcome, nodeEnv).response]
     /\ UNCHANGED <<project_summaries, entry_attachments, reqs, resp,
                    skills, conversations, atropos_corrections,
                    mergeVars, linearVars, portfolioVars, errVars,
                    migrationVars, keyVars, drizzleVars>>

(* The PATCH requests *)

PatchBodies ==
  { EmptyObject,
    [why |-> Text("w2")],
    [what_changed |-> Text("")],
    [decisions |-> Text("d2"), technologies |-> Text("t2")],
    [kronus_wisdom |-> Text("k2")],
    [kronus_wisdom |-> JsonNull],
    [why |-> Text("w2"), author |-> Text("mallory")],
    [author |-> Text("mallory")],
    [why |-> JsonNull],
    [decisions |-> [type |-> "number", n |-> 5]] }

PatchRequests ==
  { [commitHash |-> h, json_ok |-> TRUE, body |-> b, backup |-> o] :
      h \in { HashA, HashAB, HashB }, b \in PatchBodies, o \in BackupOutcomes }
  \cup { [commitHash |-> HashAB, json_ok |-> FALSE, body |-> EmptyObject,
          backup |-> "done"] }

NextPatch == \E request \in PatchRequests : PatchEntry(request)

\* the members of a body that the route may write, as column values
Present(body) == ColumnsIn(UpdateColumns) \cap DOMAIN body

WellTyped(body) ==
  \A f \in Present(body) :
    \/ body[f].type = "string"
    \/ f = "kronus_wisdom" /\ body[f].type = "null"

Patched(r) ==
  /\ webResp.route = PatchRoute
  /\ webResp.request = r
  /\ r.json_ok
  /\ WellTyped(r.body)

Known(hash, rows) == \E i \in 1..Len(rows) : rows[i].commit_hash = hash

\* C21: PATCH /api/entries/[commitHash] changes only the fields present in
\* the body, of the entry with that commit hash, and leaves its other fields
\* and every other entry unchanged; a body with none of the five fields is
\* answered 400 and an unknown commit hash 404, both without changing any
\* entry; the answer is the same whether the backup after the update fails.
C21_PatchFrame ==
  \A r \in PatchRequests :
    Patched(r) =>
      LET before == webResp.before
          status == webResp.response.status
      IN IF Present(r.body) = {}
         THEN status = 400 /\ journal_entries = before
         ELSE IF ~Known(r.commitHash, before)
         THEN status = 404 /\ journal_entries = before
         ELSE /\ status = 200
              /\ Len(journal_entries) = Len(before)
              /\ \A i \in 1..Len(before) :
                   IF before[i].commit_hash # r.commitHash
                   THEN journal_entries[i] = before[i]
                   ELSE /\ DOMAIN journal_entries[i] = DOMAIN before[i]
                        /\ \A c \in DOMAIN before[i] :
                             journal_entries[i][c] =
                               IF c \notin Present(r.body) THEN before[i][c]
                               ELSE IF r.body[c].type = "string" THEN r.body[c].s
                               ELSE Null
                        /\ webResp.response.body = journal_entries[i]

\* two fields of one entry of three were updated and the backup failed
C21_Witness ==
  /\ webResp.route = PatchRoute
  /\ webResp.request.backup = "threw"
  /\ webResp.request.json_ok
  /\ DOMAIN webResp.request.body = {"decisions", "technologies"}
  /\ webResp.response.status = 200
  /\ Len(journal_entries) = 3
  /\ journal_entries # webResp.before

\* a body with none of the fields was refused
C21_WitnessNoFields ==
  /\ webResp.route = PatchRoute
  /\ webResp.request.json_ok
  /\ DOMAIN webResp.request.body = {"author"}
  /\ webResp.response.status = 400

\* an unknown commit hash was answered 404
C21_WitnessUnknown ==
  /\ webResp.route = PatchRoute
  /\ webResp.request.commitHash = HashA
  /\ webResp.response.status = 404

-----------------------------------------------------------------------------
(* The Drizzle client (web/lib/db/drizzle.ts).  A connection is the number
   of the new Database(...) call that made it; a client is known by the
   connection it wraps.  Beside db and sqlite the state holds the
   environment (whether the database file exists, which connections are
   open) and, since the last closeDrizzleDb call, how many connections were
   opened and which clients getDrizzleDb returned. *)

MaxConnections == 3   \* new Database(...) calls

NoConnection == 0     \* null

\* new Database(dbPath) and the three pragmas: all succeed, the constructor
\* throws, or a pragma throws on the connection just opened
OpenOutcomes == { "ok", "constructor throws", "pragma throws" }

DrizzleResult(call, kind, value) == [call |-> call, kind |-> kind, value |-> value]

DrizzleStart(exists) ==
  [db |-> NoConnection, sqlite |-> NoConnection, exists |-> exists,
   open |-> {}, made |-> 0, opened |-> 0, returned |-> {},
   last |-> DrizzleResult("", "none", NoConnection)]

\* the module state and the result of getDrizzleDb()
GetDrizzleDbOn(d, outcome) ==
  IF d.db # NoConnection
  THEN [d EXCEPT !.last = DrizzleResult("getDrizzleDb", "returned", d.db)]
  ELSE IF ~d.exists
  THEN [d EXCEPT !.last = DrizzleResult("getDrizzleDb", "threw Database not found",
                                        NoConnection)]
  ELSE IF outcome = "constructor throws"
  THEN [d EXCEPT !.last = DrizzleResult("getDrizzleDb", "threw SqliteError", NoConnection)]
  ELSE LET c == d.made + 1
           connected == [d EXCEPT !.sqlite = c, !.made = c, !.open = @ \cup {c},
                                  !.opened = @ + 1]
       IN IF outcome = "pragma throws"
          THEN [connected EXCEPT
                  !.last = DrizzleResult("getDrizzleDb", "threw SqliteError", NoConnection)]
          ELSE [connected EXCEPT !.db = c,
                  !.last = DrizzleResult("getDrizzleDb", "returned", c)]

\* whether this call reaches new Database(...)
Opens(d) == d.db = NoConnection /\ d.exists

getDrizzleDb(outcome) ==
  LET after == GetDrizzleDbOn(drizzle, outcome)
  IN /\ Opens(drizzle) => drizzle.made < MaxConnections
     /\ drizzle' = [after EXCEPT
                      !.returned = IF after.last.kind = "returned"
                                   THEN @ \cup {after.last.value} ELSE @]
     /\ UNCHANGED notDrizzleVars

\* if (!sqlite) getDrizzleDb(); return sqlite!
getRawSqlite(outcome) ==
  LET after == IF drizzle.sqlite = NoConnection THEN GetDrizzleDbOn(drizzle, outcome)
               ELSE drizzle
      threw == drizzle.sqlite = NoConnection /\ after.last.kind # "returned"
  IN /\ (drizzle.sqlite = NoConnection /\ Opens(drizzle)) =>
          drizzle.made < MaxConnections
     /\ drizzle' = [after EXCEPT
                      !.last = IF threw THEN [after.last EXCEPT !.call = "getRawSqlite"]
                               ELSE DrizzleResult("getRawSqlite", "returned", after.sqlite)]
     /\ UNCHANGED notDrizzleVars

\* if (sqlite) { sqlite.close(); sqlite = null; db = null; }
closeDrizzleDbOn(d) ==
  IF d.sqlite # NoConnection
  THEN [d EXCEPT !.open = @ \ {d.sqlite}, !.sqlite = NoConnection, !.db = NoConnection]
  ELSE d

closeDrizzleDb ==
  /\ drizzle' = [closeDrizzleDbOn(drizzle) EXCEPT
                   !.opened = 0, !.returned = {},
                   !.last = DrizzleResult("closeDrizzleDb", "returned", NoConnection)]
  /\ UNCHANGED notDrizzleVars

\* the database file appears or goes away
SetExists(exists) ==
  /\ drizzle.exists # exists
  /\ drizzle' = [drizzle EXCEPT !.exists = exists,
                                !.last = DrizzleResult("", "none", NoConnection)]
  /\ UNCHANGED notDrizzleVars

DrizzleIdle == drizzle = DrizzleStart(FALSE)

NextDrizzle ==
  \/ \E outcome \in OpenOutcomes : getDrizzleDb(outcome)
  \/ \E outcome \in OpenOutcomes : getRawSqlite(outcome)
  \/ closeDrizzleDb
  \/ \E exists \in BOOLEAN : SetExists(exists)

\* C22: the Drizzle client is a singleton with an open/closed lifecycle:
\* between two closeDrizzleDb calls every getDrizzleDb call returns the same
\* client and at most one SQLite connection is opened; after closeDrizzleDb
\* the client and the connection are cleared, and the client a later
\* getDrizzleDb returns is a fresh one; a getDrizzleDb that finds the
\* database file missing throws and leaves the client unset.
C22_Singleton ==
  /\ Cardinality(drizzle.returned) <= 1
  /\ drizzle.opened <= 1
  /\ drizzle.last.call = "closeDrizzleDb" =>
       drizzle.db = NoConnection /\ drizzle.sqlite = NoConnection
  /\ drizzle.returned \subseteq drizzle.open
  /\ drizzle.last = DrizzleResult("getDrizzleDb", "threw Database not found", NoConnection)
       => drizzle.db = NoConnection

\* what the code keeps of C22: all of it but the count of connections, which
\* is at most one more than the connections that are open and not held by
\* sqlite (those a throwing pragma left behind)
C22_SingletonClient ==
  /\ Cardinality(drizzle.returned) <= 1
  /\ drizzle.last.call = "closeDrizzleDb" =>
       drizzle.db = NoConnection /\ drizzle.sqlite = NoConnection
  /\ drizzle.returned \subseteq drizzle.open
  /\ drizzle.last = DrizzleResult("getDrizzleDb", "threw Database not found", NoConnection)
       => drizzle.db = NoConnection
  /\ drizzle.db # NoConnection => drizzle.db = drizzle.sqlite
  /\ drizzle.opened <= 1 + Cardinality(drizzle.open \ {drizzle.sqlite})

-----------------------------------------------------------------------------
(* Specifications.
   SpecJournal: the server taking create-entry requests concurrently with
   GET requests.  SpecRead: the GET routes over a seeded database, with the
   full range of query strings. *)

\* the subsystems a specification leaves alone
MergeIdle == Entry0Idle(NoSummary)

LaterIdle == WebIdle /\ AtroposIdle /\ KeyIdle /\ DrizzleIdle

InitJournal ==
  /\ \E rows \in { <<>>, <<Row(1, SeedHash(1), "r1", "main", 1)>> } :
       JournalDb(rows, <<Summary("r1")>>)
  /\ MergeIdle /\ LinearIdle /\ PortfolioIdle /\ ErrIdle /\ LaterIdle

NextJournal == CreateRoute \/ GetRoutes(FewQueries, FewQueries, FewQueries)

SpecJournal == InitJournal /\ [][NextJournal]_vars

InitRead ==
  /\ \E rows \in SeedTablesUpTo(MaxRows), s \in SeedSummaries : JournalDb(rows, s)
  /\ MergeIdle /\ LinearIdle /\ PortfolioIdle /\ ErrIdle /\ LaterIdle

NextRead == GetRoutes(ListQueries, BranchQueries, FlagQueries)

SpecRead == InitRead /\ [][NextRead]_vars

JournalIdle == JournalDb(<<>>, <<>>)

InitMerge ==
  /\ \E e \in ExistingSamples : Entry0Idle(e)
  /\ JournalIdle /\ LinearIdle /\ PortfolioIdle /\ ErrIdle /\ LaterIdle

NextMerge == (\E u \in UpdateSamples : Normalize(u)) \/ Merge \/ WriteMerged

SpecMerge == InitMerge /\ [][NextMerge]_vars

InitErr ==
  /\ nodeEnv \in NodeEnvs
  /\ wrapped = NotCalled
  /\ JournalIdle /\ MergeIdle /\ LinearIdle /\ PortfolioIdle /\ LaterIdle

NextErr == \E outcome \in HandlerOutcomes : CallWrapped(outcome)

SpecErr == InitErr /\ [][NextErr]_vars

InitPortfolio ==
  /\ PortfolioIdle
  /\ nodeEnv \in {"development", "production"}
  /\ wrapped = NotCalled
  /\ JournalIdle /\ MergeIdle /\ LinearIdle /\ LaterIdle

SpecPortfolio == InitPortfolio /\ [][NextPortfolio]_vars

InitLinear ==
  /\ LinearIdle
  /\ JournalIdle /\ MergeIdle /\ PortfolioIdle /\ ErrIdle /\ LaterIdle

SpecLinear == InitLinear /\ [][NextLinear]_vars

InitWeb ==
  /\ \E seed \in WebSeeds :
       /\ JournalDb(seed.entries, seed.summaries)
       /\ atropos_corrections = seed.corrections
       /\ nodeEnv = seed.env
  /\ skills = <<>> /\ conversations = <<>> /\ webResp = NoWebResponse
  /\ wrapped = NotCalled
  /\ MergeIdle /\ LinearIdle /\ PortfolioIdle /\ AtroposIdle /\ KeyIdle /\ DrizzleIdle

SpecWeb == InitWeb /\ [][NextWeb]_vars

SpecWebWrite == InitWeb /\ [][NextWebWrite]_vars

InitMigration ==
  /\ \/ AtroposIdle
     \/ \E n \in 0..MaxLegacy : \E legacy \in LegacyTables(n) :
          atropos = Atropos(TRUE, legacy)
  /\ JournalIdle /\ MergeIdle /\ LinearIdle /\ PortfolioIdle /\ ErrIdle
  /\ WebIdle /\ KeyIdle /\ DrizzleIdle

SpecMigration == InitMigration /\ [][NextMigration]_vars

InitKey ==
  /\ apiKey \in EnvKeys
  /\ keyBefore = apiKey
  /\ normalizing = [c \in Callers |-> IdleCall]
  /\ JournalIdle /\ MergeIdle /\ LinearIdle /\ PortfolioIdle /\ ErrIdle
  /\ WebIdle /\ AtroposIdle /\ DrizzleIdle

SpecKey == InitKey /\ [][NextKey]_vars

SpecPatch == InitWeb /\ [][NextPatch]_vars

InitDrizzle ==
  /\ \E exists \in BOOLEAN : drizzle = DrizzleStart(exists)
  /\ JournalIdle /\ MergeIdle /\ LinearIdle /\ PortfolioIdle /\ ErrIdle
  /\ WebIdle /\ AtroposIdle /\ KeyIdle

SpecDrizzle == InitDrizzle /\ [][NextDrizzle]_vars

====
